---------------------------- MODULE Spec2Model ----------------------------
(***************************************************************************)
(* A model of ujson (src/ujson.h, src/ujson.cpp): the in-place parser, the *)
(* value tree, the access-tracking accessor layer and the Json document.   *)
(*                                                                         *)
(* Conventions                                                             *)
(*   - a character buffer is a sequence of bytes 0..255 that ends with the *)
(*     terminating zero; a char* is a 1-based index into it, 0 is nullptr; *)
(*   - int64_t is four 16-bit limbs, least significant first, in two's     *)
(*     complement, so that the 64-bit boundaries of the code are the real  *)
(*     ones; int32_t values fit the checker's integers and are integers;   *)
(*   - a thrown exception is a result record whose err field is not "".    *)
(***************************************************************************)
EXTENDS Integers, Sequences, FiniteSets, TLC

(***************************************************************************)
(* Characters                                                              *)
(***************************************************************************)
ord ==
    ("0" :> 48) @@ ("1" :> 49) @@ ("2" :> 50) @@ ("3" :> 51) @@ ("4" :> 52) @@
    ("5" :> 53) @@ ("6" :> 54) @@ ("7" :> 55) @@ ("8" :> 56) @@ ("9" :> 57) @@
    ("A" :> 65) @@ ("F" :> 70) @@ ("E" :> 69) @@
    ("a" :> 97) @@ ("b" :> 98) @@ ("c" :> 99) @@ ("d" :> 100) @@ ("e" :> 101) @@
    ("f" :> 102) @@ ("l" :> 108) @@ ("n" :> 110) @@ ("r" :> 114) @@
    ("s" :> 115) @@ ("t" :> 116) @@ ("u" :> 117) @@ ("x" :> 120) @@ ("y" :> 121) @@
    (" " :> 32) @@ ("\t" :> 9) @@ ("\n" :> 10) @@ ("\r" :> 13) @@
    ("BS" :> 8) @@ ("\f" :> 12) @@
    ("\"" :> 34) @@ ("\\" :> 92) @@ ("/" :> 47) @@ ("-" :> 45) @@ ("+" :> 43) @@
    ("." :> 46) @@ ("," :> 44) @@ (":" :> 58) @@
    ("[" :> 91) @@ ("]" :> 93) @@ ("{" :> 123) @@ ("}" :> 125)

\* The bytes of a string literal of the source, as skip_text receives them.
txt_null  == <<ord["n"], ord["u"], ord["l"], ord["l"]>>
txt_true  == <<ord["t"], ord["r"], ord["u"], ord["e"]>>
txt_false == <<ord["f"], ord["a"], ord["l"], ord["s"], ord["e"]>>

IsDigit(c) == c >= ord["0"] /\ c <= ord["9"]

(***************************************************************************)
(* int64_t: <<w0, w1, w2, w3>>, w0 least significant, each in 0..65535     *)
(***************************************************************************)
Limb == 2^16

I64Zero == <<0, 0, 0, 0>>

\* x + y modulo 2^64
I64Add(x, y) ==
    LET s1 == x[1] + y[1]
        s2 == x[2] + y[2] + (s1 \div Limb)
        s3 == x[3] + y[3] + (s2 \div Limb)
        s4 == x[4] + y[4] + (s3 \div Limb)
    IN  <<s1 % Limb, s2 % Limb, s3 % Limb, s4 % Limb>>

\* -x modulo 2^64
I64Neg(x) ==
    I64Add(<<Limb - 1 - x[1], Limb - 1 - x[2], Limb - 1 - x[3], Limb - 1 - x[4]>>,
           <<1, 0, 0, 0>>)

\* x * 10 modulo 2^64
I64Mul10(x) ==
    LET s1 == x[1] * 10
        s2 == x[2] * 10 + (s1 \div Limb)
        s3 == x[3] * 10 + (s2 \div Limb)
        s4 == x[4] * 10 + (s3 \div Limb)
    IN  <<s1 % Limb, s2 % Limb, s3 % Limb, s4 % Limb>>

I64IsNeg(x) == x[4] >= Limb \div 2

\* the conversion of a small int (|k| < 65536) to int64_t
I64OfSmall(k) ==
    IF k >= 0 THEN <<k, 0, 0, 0>> ELSE I64Neg(<<-k, 0, 0, 0>>)

\* signed x < y
I64Lt(x, y) ==
    LET kx == (x[4] + Limb \div 2) % Limb
        ky == (y[4] + Limb \div 2) % Limb
    IN  \/ kx < ky
        \/ kx = ky /\ x[3] < y[3]
        \/ kx = ky /\ x[3] = y[3] /\ x[2] < y[2]
        \/ kx = ky /\ x[3] = y[3] /\ x[2] = y[2] /\ x[1] < y[1]

I64Le(x, y) == x = y \/ I64Lt(x, y)

\* the int64_t a decimal literal of the source denotes: digits, most
\* significant first
RECURSIVE I64Lit(_)
I64Lit(ds) ==
    IF ds = <<>> THEN I64Zero
    ELSE I64Add(I64Mul10(I64Lit(SubSeq(ds, 1, Len(ds) - 1))),
                <<ds[Len(ds)], 0, 0, 0>>)

\* int32_t -> int64_t (sign extension)
I64OfI32(k) ==
    LET u  == IF k >= 0 THEN k ELSE (k + 2147483647) + 1
        lo == <<u % Limb, u \div Limb>>
    IN  IF k >= 0 THEN <<lo[1], lo[2], 0, 0>>
        ELSE <<lo[1], lo[2] + Limb \div 2, Limb - 1, Limb - 1>>

\* static_cast<int32_t>(x): the low 32 bits, as a signed number
I64ToI32(x) ==
    IF x[2] >= Limb \div 2
    THEN (x[2] - Limb) * Limb + x[1]
    ELSE x[2] * Limb + x[1]


\* bitwise and / or of two naturals
RECURSIVE BitAnd(_, _)
BitAnd(a, b) ==
    IF a = 0 \/ b = 0 THEN 0
    ELSE 2 * BitAnd(a \div 2, b \div 2) + (IF a % 2 = 1 /\ b % 2 = 1 THEN 1 ELSE 0)

RECURSIVE BitOr(_, _)
BitOr(a, b) ==
    IF a = 0 THEN b
    ELSE IF b = 0 THEN a
    ELSE 2 * BitOr(a \div 2, b \div 2) + (IF a % 2 = 1 \/ b % 2 = 1 THEN 1 ELSE 0)

(***************************************************************************)
(* ValType (ujson.h) and ValImpl (ujson.cpp)                               *)
(***************************************************************************)
vtNone == 0
vtNull == 1
vtBool == 2
vtInt  == 4
vtF64  == 8
vtStr  == 16
vtArr  == 32
vtObj  == 64

\* nullptr, for a char* and for a ValImpl*
nullptr == 0
NoVal == [m_type |-> vtNone]

\* ValImpl's member initialisers: m_data = {}, m_type = vtNull, m_line_no = 0,
\* m_name = "" (the static empty string, pointer 0 here), m_idx = -1.
\* The vtUsedBit of m_type is kept apart, in the variable used.  addr is the
\* address of the ValImpl when it is a heap block of its own (the root), 0
\* when it is an element of its parent's vector.
NewValImpl ==
    [m_type |-> vtNull, m_line_no |-> 0, m_name |-> nullptr, m_idx |-> -1,
     m_data |-> 0, addr |-> 0]

init_bool(v, b) == [v EXCEPT !.m_type = vtBool, !.m_data = b]
init_int(v, n)  == [v EXCEPT !.m_type = vtInt,  !.m_data = n]
init_f64(v, n)  == [v EXCEPT !.m_type = vtF64,  !.m_data = n]
init_str(v, s)  == [v EXCEPT !.m_type = vtStr,  !.m_data = s]
\* m_data.list = new List / new Dict, at address list: the values vector
\* and, for an object, the name map
init_arr(v, list) ==
    [v EXCEPT !.m_type = vtArr, !.m_data = [list |-> list, values |-> <<>>]]
init_obj(v, list) ==
    [v EXCEPT !.m_type = vtObj,
              !.m_data = [list |-> list, values |-> <<>>, map |-> <<>>]]

IsContainer(v) == v.m_type \in {vtArr, vtObj}

\* ArrImpl::get_len
get_len(v) == Len(v.m_data.values)

(***************************************************************************)
(* Character buffers                                                       *)
(***************************************************************************)
\* *p; a read outside the buffer yields no byte value
At(buf, p) == IF p \in 1..Len(buf) THEN buf[p] ELSE -1

\* the value of a char holding byte b, where char is signed or unsigned
AsChar(b, signed) == IF signed /\ b >= 128 THEN b - 256 ELSE b

\* the zero-terminated string at p: the bytes up to the first zero
RECURSIVE CStr(_, _)
CStr(buf, p) ==
    IF p = nullptr \/ At(buf, p) <= 0 THEN <<>>
    ELSE <<buf[p]>> \o CStr(buf, p + 1)

\* strlen
RECURSIVE strlen(_)
strlen(str) == IF str = <<>> \/ Head(str) = 0 THEN 0 ELSE 1 + strlen(Tail(str))


(***************************************************************************)
(* class Parser.  A parser state is                                        *)
(*   [buf, m_next, m_line_count, err, heap, brk, schar]                    *)
(* buf: the buffer parsed and rewritten in place; err: the message of the  *)
(* ErrSyntax thrown, "" while none is; heap: the addresses of the live     *)
(* blocks obtained by new ValImpl, new List and new Dict; brk: the address *)
(* the next new returns; schar: whether char is a signed type on the       *)
(* platform.                                                               *)
(***************************************************************************)
Parser(str, schar, heap, brk) ==
    [buf |-> str, m_next |-> 1, m_line_count |-> 1, err |-> "",
     heap |-> heap, brk |-> brk, schar |-> schar]

\* operator new: the block at st.brk becomes live
New(st) == [st EXCEPT !.heap = @ \cup {st.brk}, !.brk = @ + 1]

\* throw ErrSyntax(msg, m_line_count)
Throw(st, msg) == [st EXCEPT !.err = msg]

Failed(st) == st.err # ""

\* skip_text's test: 0 == strncmp(m_next, str, strlen(str))
TextAt(st, str) ==
    \A i \in 1..Len(str) : At(st.buf, st.m_next + i - 1) = str[i]

\* skip_text's effect when the text is there
Skip(st, n) == [st EXCEPT !.m_next = @ + n]

\* skip_to_eol: from p, to just after the next CR, LF or CRLF, or to the
\* terminating zero
RECURSIVE SkipToEolFrom(_, _)
SkipToEolFrom(st, p) ==
    LET c == At(st.buf, p) IN
    IF c = 0 THEN [st EXCEPT !.m_next = p]
    ELSE IF c = ord["\r"]
    THEN [st EXCEPT !.m_line_count = @ + 1,
                    !.m_next = IF At(st.buf, p + 1) = ord["\n"] THEN p + 2 ELSE p + 1]
    ELSE IF c = ord["\n"]
    THEN [st EXCEPT !.m_line_count = @ + 1, !.m_next = p + 1]
    ELSE SkipToEolFrom(st, p + 1)

\* a skip_to_eol that looks for an LF behind the terminating zero
SkipToEolPastZero(st) ==
    LET r == SkipToEolFrom(st, st.m_next)
    IN  IF At(st.buf, r.m_next) = 0 /\ At(st.buf, r.m_next + 1) = ord["\n"]
        THEN [r EXCEPT !.m_next = @ + 2, !.m_line_count = @ + 1]
        ELSE r

\* a skip_to_eol that leaves the LF of a CRLF pair to the next call
SkipToEolLeavingLF(st) ==
    LET r == SkipToEolFrom(st, st.m_next)
    IN  IF st.m_next <= r.m_next - 2 /\ At(st.buf, r.m_next - 2) = ord["\r"]
           /\ At(st.buf, r.m_next - 1) = ord["\n"]
        THEN [r EXCEPT !.m_next = @ - 1]
        ELSE r

skip_to_eol(st) == SkipToEolFrom(st, st.m_next)

RECURSIVE skip_white_space(_)
skip_white_space(st) ==
    LET c == At(st.buf, st.m_next) IN
    IF c = ord[" "] \/ c = ord["\t"] THEN skip_white_space(Skip(st, 1))
    ELSE IF c = ord["\r"] \/ c = ord["\n"] THEN skip_white_space(skip_to_eol(st))
    ELSE IF c = ord["/"] /\ At(st.buf, st.m_next + 1) = ord["/"]
    THEN skip_white_space(skip_to_eol(st))
    ELSE st

\* add_val: the new value is the root (new ValImpl) or the next element of
\* the parent's vector, whose index it gets (ArrImpl::add_element); idx is
\* the parent's length before, -1 for the root
add_val(st, idx) ==
    [st |-> IF idx < 0 THEN New(st) ELSE st,
     v  |-> [NewValImpl EXCEPT !.addr = IF idx < 0 THEN st.brk ELSE 0,
                               !.m_idx = idx, !.m_line_no = st.m_line_count]]

\* a result of a parse_val_* function that returned nullptr
NotThis(st) == [st |-> st, v |-> NoVal]

parse_val_null(st, idx) ==
    IF TextAt(st, txt_null) THEN add_val(Skip(st, Len(txt_null)), idx)
    ELSE NotThis(st)

parse_val_bool(st, idx) ==
    IF TextAt(st, txt_false)
    THEN LET a == add_val(Skip(st, Len(txt_false)), idx)
         IN  [a EXCEPT !.v = init_bool(@, FALSE)]
    ELSE IF TextAt(st, txt_true)
    THEN LET a == add_val(Skip(st, Len(txt_true)), idx)
         IN  [a EXCEPT !.v = init_bool(@, TRUE)]
    ELSE NotThis(st)


(***************************************************************************)
(* Unsigned integers of any size, for the decimal to binary conversion of  *)
(* strtod: sequences of 16-bit limbs, least significant first, without a   *)
(* zero limb at the top (zero is the empty sequence).  The operations that *)
(* go through the limbs take the two halves of them one after the other.   *)
(***************************************************************************)
\* the index of the highest limb of x that is not zero, 0 when there is none
BigTop(x) ==
    IF \A i \in 1..Len(x) : x[i] = 0 THEN 0
    ELSE CHOOSE i \in 1..Len(x) : x[i] # 0 /\ \A j \in (i + 1)..Len(x) : x[j] = 0

BigNorm(x) == SubSeq(x, 1, BigTop(x))

BigPadTo(x, n) == [i \in 1..n |-> IF i <= Len(x) THEN x[i] ELSE 0]

\* x * k + c limb by limb: [s, c], the limbs and the carry out of the top one
RECURSIVE BigMulAddC(_, _, _)
BigMulAddJoin(lo, hi) == [s |-> lo.s \o hi.s, c |-> hi.c]

BigMulAddHigh(x, k, lo) ==
    BigMulAddJoin(lo, BigMulAddC(SubSeq(x, Len(x) \div 2 + 1, Len(x)), k, lo.c))

BigMulAddC(x, k, c) ==
    IF x = <<>> THEN [s |-> <<>>, c |-> c]
    ELSE IF Len(x) = 1
    THEN [s |-> <<(x[1] * k + c) % Limb>>, c |-> (x[1] * k + c) \div Limb]
    ELSE BigMulAddHigh(x, k, BigMulAddC(SubSeq(x, 1, Len(x) \div 2), k, c))

BigCarried(r) == IF r.c = 0 THEN r.s ELSE Append(r.s, r.c)

\* x * k + c, for k <= 10000 and c < k
BigMulAdd(x, k, c) == BigCarried(BigMulAddC(x, k, c))

\* x * 10 + ds[i], and so on for cnt digits of ds from the i-th on (a zero
\* digit in front adds nothing)
RECURSIVE BigAddDigits(_, _, _, _)
BigAddDigits(x, ds, i, cnt) ==
    IF cnt <= 0 THEN x
    ELSE IF x = <<>> /\ ds[i] = 0 THEN BigAddDigits(x, ds, i + 1, cnt - 1)
    ELSE IF cnt = 1 THEN BigMulAdd(x, 10, ds[i])
    ELSE BigAddDigits(BigAddDigits(x, ds, i, cnt \div 2), ds,
                      i + cnt \div 2, cnt - cnt \div 2)

\* the number written with the decimal digits ds, most significant first
BigOfDigits(ds) == BigAddDigits(<<>>, ds, 1, Len(ds))

\* x * 10^n
RECURSIVE BigMulPow10(_, _)
BigMulPow10(x, n) ==
    IF n <= 0 \/ x = <<>> THEN x
    ELSE IF n <= 4 THEN BigMulAdd(x, 10^n, 0)
    ELSE BigMulPow10(BigMulPow10(x, n \div 2), n - n \div 2)

\* the number of bits of one limb
RECURSIVE LimbBits(_)
LimbBits(k) == IF k = 0 THEN 0 ELSE 1 + LimbBits(k \div 2)

\* the number of bits of x
BigBitLen(x) == IF x = <<>> THEN 0 ELSE 16 * (Len(x) - 1) + LimbBits(x[Len(x)])

\* x * 2^k
BigShl(x, k) ==
    IF x = <<>> \/ k <= 0 THEN x
    ELSE [i \in 1..(k \div 16) |-> 0]
           \o BigMulAdd(BigMulAdd(x, 2^((k % 16) \div 2), 0),
                        2^((k % 16) - (k % 16) \div 2), 0)

\* x \div 2^k
BigShr(x, k) ==
    IF k <= 0 THEN x
    ELSE BigNorm([i \in 1..(Len(x) - k \div 16) |->
                    (x[i + k \div 16] \div 2^(k % 16))
                      + (IF i + k \div 16 < Len(x)
                         THEN (x[i + k \div 16 + 1] % 2^(k % 16)) * 2^(16 - (k % 16))
                         ELSE 0)])

\* x % 2^k # 0
BigLowBits(x, k) ==
    \E i \in 1..Len(x) :
        \/ i <= k \div 16 /\ x[i] # 0
        \/ i = k \div 16 + 1 /\ x[i] % 2^(k % 16) # 0

BigIsOdd(x) == x # <<>> /\ x[1] % 2 = 1

\* x + 1
RECURSIVE BigInc(_)
BigInc(x) ==
    IF x = <<>> THEN <<1>>
    ELSE IF Head(x) + 1 < Limb THEN <<Head(x) + 1>> \o Tail(x)
    ELSE <<0>> \o BigInc(Tail(x))

\* the limbs of x divided by k <= 10000, from the top limb down, rem the
\* remainder that comes from above: [s, r], the limbs of the quotient, the
\* top limb first, and the remainder
RECURSIVE BigDivLimbs(_, _, _)
BigDivJoin(hi, lo) == [s |-> hi.s \o lo.s, r |-> lo.r]

BigDivLow(x, k, hi) ==
    BigDivJoin(hi, BigDivLimbs(SubSeq(x, 1, Len(x) \div 2), k, hi.r))

BigDivLimbs(x, k, rem) ==
    IF x = <<>> THEN [s |-> <<>>, r |-> rem]
    ELSE IF Len(x) = 1
    THEN [s |-> <<(rem * Limb + x[1]) \div k>>, r |-> (rem * Limb + x[1]) % k]
    ELSE BigDivLow(x, k, BigDivLimbs(SubSeq(x, Len(x) \div 2 + 1, Len(x)), k, rem))

\* a quotient with its sticky flag (whether a remainder was dropped on the
\* way) divided once more, by k <= 10000
BigReverse(s) == [i \in 1..Len(s) |-> s[Len(s) + 1 - i]]

BigDivided(sticky, d) ==
    [q |-> BigNorm(BigReverse(d.s)), sticky |-> sticky \/ d.r # 0]

BigDivSmall(st, k) == BigDivided(st.sticky, BigDivLimbs(st.q, k, 0))

\* st divided by 10^n, by 10000 at a time: floor(floor(x / a) / b) is
\* floor(x / (a * b))
RECURSIVE BigDivPow10(_, _)
BigDivPow10(st, n) ==
    IF n <= 0 \/ st.q = <<>> THEN st
    ELSE IF n <= 4 THEN BigDivSmall(st, 10^n)
    ELSE BigDivPow10(BigDivPow10(st, n \div 2), n - n \div 2)

\* q shifted right by t bits, below a dropped remainder: [m, round,
\* sticky], the bits kept, the last bit shifted out, and whether a lower
\* bit was set
ShrRound(q, t, sticky) ==
    IF t <= 0 THEN [m |-> q, round |-> FALSE, sticky |-> sticky]
    ELSE [m      |-> BigShr(q, t),
          round  |-> BigIsOdd(BigShr(q, t - 1)),
          sticky |-> sticky \/ BigLowBits(q, t - 1)]

\* round to nearest, ties to even
RoundEven(r) == IF r.round /\ (r.sticky \/ BigIsOdd(r.m)) THEN BigInc(r.m) ELSE r.m

(***************************************************************************)
(* double: an IEEE-754 binary64,                                           *)
(*   [neg, m, e]  =  (-1)^neg * m * 2^e,   m an unsigned number in limbs   *)
(* zero has m = 0 and e = 0; a subnormal 0 < m < 2^52 and e = -1074; a     *)
(* normal 2^52 <= m < 2^53 and -1074 <= e <= 971; infinity is written      *)
(* m = 2^52, e = 972.                                                      *)
(***************************************************************************)
RECURSIVE StripLeft(_)
StripLeft(ds) == IF ds # <<>> /\ Head(ds) = 0 THEN StripLeft(Tail(ds)) ELSE ds

\* a number below 2^64 in the four limbs of a 64-bit integer
BigPad(m) == BigPadTo(m, 4)

F64Zero(neg) == [neg |-> neg, m |-> I64Zero, e |-> 0]
F64Inf(neg)  == [neg |-> neg, m |-> <<0, 0, 0, 16>>, e |-> 972]

\* the double of the rounded mantissa m at the exponent e; a mantissa that
\* the rounding carried to 2^53 is 2^52 at the next exponent
F64Pack(neg, m, e) ==
    IF m = <<>> THEN F64Zero(neg)
    ELSE IF m = <<0, 0, 0, 32>>
    THEN (IF e + 1 > 971 THEN F64Inf(neg)
          ELSE [neg |-> neg, m |-> <<0, 0, 0, 16>>, e |-> e + 1])
    ELSE IF e > 971 THEN F64Inf(neg)
    ELSE [neg |-> neg, m |-> BigPad(m), e |-> e]

\* the conversion of the quotient q = floor(v * 2^s), q >= 2^54, of a
\* number v: lg is floor(log2 v), r the quotient cut to the double's
\* precision (fewer bits for a subnormal), rn the quotient cut to 53 bits,
\* mn that one rounded (2^53 when the rounding carried).  ERANGE: the result
\* overflows, or is inexact and tiny, where tiny is judged after rounding
\* to 53 bits with an unbounded exponent
F64Rounded(neg, lg, inexact, val, mn) ==
    [val    |-> val,
     erange |-> \/ val = F64Inf(neg)
                \/ inexact /\ (lg < -1023 \/ (lg = -1023 /\ mn # <<0, 0, 0, 32>>))]

F64Both(neg, lg, e, r, rn) ==
    F64Rounded(neg, lg, r.round \/ r.sticky, F64Pack(neg, RoundEven(r), e),
               RoundEven(rn))

F64Cut(neg, s, div, lg, e) ==
    F64Both(neg, lg, e,
            ShrRound(div.q, e + s, div.sticky),
            ShrRound(div.q, lg + s - 52, div.sticky))

F64Quot(neg, s, div) ==
    F64Cut(neg, s, div, BigBitLen(div.q) - 1 - s,
           IF BigBitLen(div.q) - 1 - s - 52 < -1074 THEN -1074
           ELSE BigBitLen(div.q) - 1 - s - 52)

\* the double nearest to n / 10^k: the quotient is taken after scaling by
\* 2^s
F64Scaled(neg, n, k, s) ==
    F64Quot(neg, s, BigDivPow10([q |-> BigShl(n, s), sticky |-> FALSE], k))

\* s is such that the quotient has 55 bits at least: 10^k is below
\* 2^(10 * k \div 3 + 1)
F64Ratio(neg, n, k) ==
    F64Scaled(neg, n, k,
              IF 55 + (IF k > 0 THEN (10 * k) \div 3 + 1 ELSE 0) - BigBitLen(n) > 0
              THEN 55 + (IF k > 0 THEN (10 * k) \div 3 + 1 ELSE 0) - BigBitLen(n)
              ELSE 0)

\* the conversion of the decimal (-1)^neg * (the integer l) * 10^e, l
\* without leading zeros: [val, erange]
F64Decimal(neg, l, e) ==
    IF l = <<>> THEN [val |-> F64Zero(neg), erange |-> FALSE]
    ELSE IF e + Len(l) > 310 THEN [val |-> F64Inf(neg), erange |-> TRUE]
    ELSE IF e + Len(l) < -330 THEN [val |-> F64Zero(neg), erange |-> TRUE]
    ELSE F64Ratio(neg, BigMulPow10(BigOfDigits(l), e), IF e < 0 THEN -e ELSE 0)

\* the double nearest to  (-1)^neg * (the integer ds) * 10^e
F64Of(neg, ds, e) == F64Decimal(neg, StripLeft(ds), e).val

\* lexicographic ds < es, the shorter sequence padded with zeros
RECURSIVE DigitsLt(_, _)
DigitsLt(ds, es) ==
    IF es = <<>> THEN FALSE
    ELSE IF ds = <<>> THEN TRUE
    ELSE IF Head(ds) # Head(es) THEN Head(ds) < Head(es)
    ELSE DigitsLt(Tail(ds), Tail(es))

F64IsZero(x) == x.m = I64Zero

\* |x| < |y|
F64MagLt(x, y) ==
    IF F64IsZero(y) THEN FALSE
    ELSE IF F64IsZero(x) THEN TRUE
    ELSE IF x.e # y.e THEN x.e < y.e
    ELSE \E i \in 1..4 : x.m[i] < y.m[i] /\ \A j \in (i + 1)..4 : x.m[j] = y.m[j]

\* x < y  (-0.0 and 0.0 are equal)
F64Lt(x, y) ==
    IF F64IsZero(x) /\ F64IsZero(y) THEN FALSE
    ELSE IF F64IsZero(x) THEN ~y.neg
    ELSE IF F64IsZero(y) THEN x.neg
    ELSE IF x.neg # y.neg THEN x.neg
    ELSE IF x.neg THEN F64MagLt(y, x)
    ELSE F64MagLt(x, y)

F64Le(x, y) == ~F64Lt(y, x)

\* the magnitude of an int64_t, as an unsigned number in limbs
I64Mag(x) == IF I64IsNeg(x) THEN I64Neg(x) ELSE x

\* an unsigned number in limbs divided by 10: [q, r]
U64DivMod10(x) ==
    LET c4 == x[4]
        c3 == (c4 % 10) * Limb + x[3]
        c2 == (c3 % 10) * Limb + x[2]
        c1 == (c2 % 10) * Limb + x[1]
    IN  [q |-> <<c1 \div 10, c2 \div 10, c3 \div 10, c4 \div 10>>, r |-> c1 % 10]

\* the decimal digits of an unsigned number in limbs, most significant first
RECURSIVE U64Digits(_)
U64Digits(x) ==
    IF x = I64Zero THEN <<>>
    ELSE LET d == U64DivMod10(x) IN Append(U64Digits(d.q), d.r)

\* the double nearest to the number m of len bits, ties to even
F64OfMag(neg, m, len) ==
    IF len <= 53 THEN F64Pack(neg, BigShl(m, 53 - len), len - 53)
    ELSE F64Pack(neg, RoundEven(ShrRound(m, len - 53, FALSE)), len - 53)

\* int64_t -> double
F64OfI64(x) ==
    F64OfMag(I64IsNeg(x), BigNorm(I64Mag(x)), BigBitLen(BigNorm(I64Mag(x))))

\* the value of a sequence of at most nine decimal digits
RECURSIVE SmallNat(_)
SmallNat(ds) ==
    IF ds = <<>> THEN 0 ELSE 10 * SmallNat(SubSeq(ds, 1, Len(ds) - 1)) + ds[Len(ds)]

\* while (*p >= '0' && *p <= '9') p += 1;
RECURSIVE ScanDigits(_, _)
ScanDigits(buf, p) == IF IsDigit(At(buf, p)) THEN ScanDigits(buf, p + 1) ELSE p

\* the digit values of buf[p .. q-1]
DigitsOf(buf, p, q) == [i \in 1..(q - p) |-> buf[p + i - 1] - ord["0"]]

\* std::strtod(buf + p, &end) for a text that starts with an optional '-'
\* and a digit (the only texts parse_val_num hands over): the longest prefix
\* digits [. digits] [(e|E) [+|-] digits] is converted.  The stages: i0, i1
\* bound the integer digits, f0, f1 the fraction digits, x0, x1 the exponent
\* digits; xneg is the exponent's sign.  The result is the nearest double,
\* ties to even, and ERANGE as the C library of this build (glibc) sets it:
\* on overflow, and on a result that is tiny and inexact.

\* the exponent written with the digits ds, or cap when it is larger
StrtodExpOf(ds, cap) ==
    IF Len(ds) > 9 THEN cap
    ELSE IF SmallNat(ds) > cap THEN cap
    ELSE SmallNat(ds)

\* The number is the digits of the integer and the fraction times ten to
\* the exponent less the number of fraction digits.  An exponent that is
\* 10000 above the number of digits of the number takes every number but
\* zero out of the range of double on its side, as every larger one does,
\* and stands for them.
StrtodValue(buf, neg, i0, i1, f0, f1, x0, x1, xneg) ==
    F64Decimal(neg, StripLeft(DigitsOf(buf, i0, i1) \o DigitsOf(buf, f0, f1)),
          StrtodExpOf(StripLeft(DigitsOf(buf, x0, x1)),
                      10000 + (i1 - i0) + (f1 - f0))
             * (IF xneg THEN -1 ELSE 1) - (f1 - f0))

StrtodResult(end, c) ==
    [end |-> end, val |-> c.val, erange |-> c.erange]

\* the end of the exponent x0 .. x1: without a digit there, the exponent
\* mark is not part of the number, which then ends at f1
StrtodExp(buf, neg, i0, i1, f0, f1, x0, x1, xneg) ==
    StrtodResult(IF x1 > x0 THEN x1 ELSE f1,
                 StrtodValue(buf, neg, i0, i1, f0, f1, x0, x1, xneg))

\* whether an exponent mark stands at f1, and one with a sign after it
StrtodHasExp(buf, f1) == At(buf, f1) = ord["E"] \/ At(buf, f1) = ord["e"]

StrtodHasExpSign(buf, f1) ==
    StrtodHasExp(buf, f1) /\ (At(buf, f1 + 1) = ord["+"] \/ At(buf, f1 + 1) = ord["-"])

\* where the digits of the exponent start: behind the mark and the sign,
\* at f1 when there is no mark
StrtodExpStart(buf, f1) ==
    IF StrtodHasExpSign(buf, f1) THEN f1 + 2
    ELSE IF StrtodHasExp(buf, f1) THEN f1 + 1
    ELSE f1

StrtodFrac(buf, neg, i0, i1, f0, f1) ==
    StrtodExp(buf, neg, i0, i1, f0, f1,
              StrtodExpStart(buf, f1), ScanDigits(buf, StrtodExpStart(buf, f1)),
              StrtodHasExpSign(buf, f1) /\ At(buf, f1 + 1) = ord["-"])

StrtodInt(buf, neg, i0, i1) ==
    StrtodFrac(buf, neg, i0, i1,
               IF At(buf, i1) = ord["."] THEN i1 + 1 ELSE i1,
               IF At(buf, i1) = ord["."] THEN ScanDigits(buf, i1 + 1) ELSE i1)

strtod(buf, p) ==
    StrtodInt(buf, At(buf, p) = ord["-"],
              IF At(buf, p) = ord["-"] THEN p + 1 ELSE p,
              ScanDigits(buf, IF At(buf, p) = ord["-"] THEN p + 1 ELSE p))

\* const int64_t a = -922337203685477580;
a_limit == I64Neg(I64Lit(<<9, 2, 2, 3, 3, 7, 2, 0, 3, 6, 8, 5, 4, 7, 7, 5, 8, 0>>))

\* an overflow test that also refuses the last digit the limit allows
IntOverflowsAtLimit(n, d, b) == I64Lt(n, a_limit) \/ (n = a_limit /\ d >= b)

\* the overflow test of the accumulation loop: n < a || n == a && d > b
IntOverflows(n, d, b) == I64Lt(n, a_limit) \/ (n = a_limit /\ d > b)

\* the accumulation loop of parse_val_num: n = n * 10 - d over the digits
\* from p on; [err, n]
RECURSIVE AccumulateInt(_, _, _, _)
AccumulateInt(buf, p, n, b) ==
    IF ~IsDigit(At(buf, p)) THEN [err |-> FALSE, n |-> n]
    ELSE IF IntOverflows(n, At(buf, p) - ord["0"], b) THEN [err |-> TRUE, n |-> n]
    ELSE AccumulateInt(buf, p + 1,
                       I64Add(I64Mul10(n), I64Neg(<<At(buf, p) - ord["0"], 0, 0, 0>>)),
                       b)

\* parse_val_num, the integer branch: acc is the accumulation's result
NumInt(st, idx, negative, p, acc, a) ==
    IF acc.err
    THEN NotThis(Throw(st, "invalid number syntax: integer doesn't fit in 64 bits"))
    ELSE [st |-> [a.st EXCEPT !.m_next = p],
          v  |-> init_int(a.v, IF negative THEN acc.n ELSE I64Neg(acc.n))]

\* parse_val_num, the float branch: f is strtod's result, p the lexed end
NumFloat(st, idx, p, f, a) ==
    IF f.erange
    THEN NotThis(Throw(st, "invalid number syntax: float is too huge"))
    ELSE IF f.end # p
    THEN NotThis(Throw(st, "invalid number syntax: bad float format"))
    ELSE [st |-> [a.st EXCEPT !.m_next = p], v |-> init_f64(a.v, f.val)]

\* parse_val_num after the exponent: p is the end of the token
NumEnd(st, idx, negative, num_start, is_float, p) ==
    IF ~is_float
    THEN NumInt(st, idx, negative, p,
                AccumulateInt(st.buf, num_start, I64Zero, IF negative THEN 8 ELSE 7),
                add_val(st, idx))
    ELSE NumFloat(st, idx, p, strtod(st.buf, st.m_next), add_val(st, idx))

\* parse_val_num after the fraction: p is where an exponent may start
NumExp(st, idx, negative, num_start, is_float, p) ==
    IF At(st.buf, p) = ord["E"] \/ At(st.buf, p) = ord["e"]
    THEN IF At(st.buf, p + 1) = ord["+"] \/ At(st.buf, p + 1) = ord["-"]
         THEN NumEnd(st, idx, negative, num_start, TRUE, ScanDigits(st.buf, p + 2))
         ELSE NumEnd(st, idx, negative, num_start, TRUE, ScanDigits(st.buf, p + 1))
    ELSE NumEnd(st, idx, negative, num_start, is_float, p)

\* parse_val_num after the integer digits, which end at p
NumDigits(st, idx, negative, num_start, p) ==
    IF p = st.m_next THEN NotThis(st)
    ELSE IF p = num_start
    THEN NotThis(Throw(st, "invalid number syntax: no digits after '-'"))
    ELSE IF At(st.buf, num_start) = ord["0"] /\ p - num_start > 1
    THEN NotThis(Throw(st,
           "invalid number syntax: can't start with '0' if followed by another digit"))
    ELSE IF At(st.buf, p) = ord["."]
    THEN NumExp(st, idx, negative, num_start, TRUE, ScanDigits(st.buf, p + 1))
    ELSE NumExp(st, idx, negative, num_start, FALSE, p)

parse_val_num(st, idx) ==
    IF At(st.buf, st.m_next) = ord["-"]
    THEN NumDigits(st, idx, TRUE, st.m_next + 1, ScanDigits(st.buf, st.m_next + 1))
    ELSE NumDigits(st, idx, FALSE, st.m_next, ScanDigits(st.buf, st.m_next))

(***************************************************************************)
(* Strings, decoded in place                                               *)
(***************************************************************************)
\* *p = c
Poke(buf, p, c) == IF p \in 1..Len(buf) THEN [buf EXCEPT ![p] = c] ELSE buf

\* the value of one hex digit of parse_hex4, -1 for any other character
HexVal(c) ==
    IF c >= ord["0"] /\ c <= ord["9"] THEN c - ord["0"]
    ELSE IF c >= ord["A"] /\ c <= ord["F"] THEN c - (ord["A"] - 10)
    ELSE IF c >= ord["a"] /\ c <= ord["f"] THEN c - (ord["a"] - 10)
    ELSE -1

\* parse_hex4's loop: i digits read so far, p the read position
RECURSIVE Hex4From(_, _, _, _)
Hex4From(st, p, i, code) ==
    IF i = 4 THEN [st |-> [st EXCEPT !.m_next = p], code |-> code]
    ELSE LET h == HexVal(At(st.buf, p)) IN
         IF h < 0
         THEN [st |-> Throw(st, "invalid string syntax: bad utf-16 codepoint"),
               code |-> 0]
         ELSE Hex4From(st, p + 1, i + 1, code * 16 + h)

parse_hex4(st) == Hex4From(st, st.m_next, 0, 0)

raise_bad_utf(st) == Throw(st, "invalid string syntax: bad utf-16 codepoint")

\* an encoding that takes seven bytes for every code point
Utf8BytesWide(code) ==
    <<254, 128, 128, BitOr(128, BitAnd(code \div 262144, 63)),
      BitOr(128, BitAnd(code \div 4096, 63)), BitOr(128, BitAnd(code \div 64, 63)),
      BitOr(128, BitAnd(code, 63))>>

\* the UTF-8 bytes parse_encoding writes for a code point
Utf8Bytes(code) ==
    IF code <= 127 THEN <<code % 256>>
    ELSE IF code <= 2047
    THEN <<BitOr(192, BitAnd(code \div 64, 255)) % 256,
           BitOr(128, BitAnd(code, 63))>>
    ELSE IF code <= 65535
    THEN <<BitOr(224, BitAnd(code \div 4096, 255)) % 256,
           BitOr(128, BitAnd(code \div 64, 63)),
           BitOr(128, BitAnd(code, 63))>>
    ELSE <<BitOr(240, BitAnd(code \div 262144, 255)) % 256,
           BitOr(128, BitAnd(code \div 4096, 63)),
           BitOr(128, BitAnd(code \div 64, 63)),
           BitOr(128, BitAnd(code, 63))>>

\* *str_end++ = b for each byte of bs
RECURSIVE PokeAll(_, _, _)
PokeAll(buf, p, bs) ==
    IF bs = <<>> THEN buf ELSE PokeAll(Poke(buf, p, Head(bs)), p + 1, Tail(bs))

IsLowSurrogate(code)  == code >= 56320 /\ code <= 57343
IsHighSurrogate(code) == code >= 55296 /\ code <= 56319

\* parse_encoding's end: the bytes of the code point are written at str_end
EncodingWrite(st, str_end, bs) ==
    [st |-> [st EXCEPT !.buf = PokeAll(@, str_end, bs)],
     str_end |-> str_end + Len(bs)]

\* parse_encoding after the second parse_hex4, whose result is h2
EncodingLow(h2, str_end, code) ==
    IF Failed(h2.st) THEN [st |-> h2.st, str_end |-> str_end]
    ELSE IF ~IsLowSurrogate(h2.code)
    THEN [st |-> raise_bad_utf(h2.st), str_end |-> str_end]
    ELSE EncodingWrite(h2.st, str_end,
           Utf8Bytes(BitOr((code - 55296) * 1024, h2.code - 56320) + 65536))

\* parse_encoding after the first parse_hex4, whose result is h1
EncodingHigh(h1, str_end) ==
    IF Failed(h1.st) THEN [st |-> h1.st, str_end |-> str_end]
    ELSE IF IsLowSurrogate(h1.code)
    THEN [st |-> raise_bad_utf(h1.st), str_end |-> str_end]
    ELSE IF ~IsHighSurrogate(h1.code)
    THEN EncodingWrite(h1.st, str_end, Utf8Bytes(h1.code))
    ELSE IF ~TextAt(h1.st, <<ord["\\"], ord["u"]>>)
    THEN [st |-> raise_bad_utf(h1.st), str_end |-> str_end]
    ELSE EncodingLow(parse_hex4(Skip(h1.st, 2)), str_end, h1.code)

\* parse_encoding, called after "\u" was read: [st, str_end]
parse_encoding(st, str_end) == EncodingHigh(parse_hex4(st), str_end)

\* the character a two-character escape stands for in parse_str's switch,
\* -1 where the switch falls to its default
EscapeChar(e) ==
    IF e = ord["\\"] THEN ord["\\"]
    ELSE IF e = ord["/"] THEN ord["/"]
    ELSE IF e = ord["b"] THEN ord["BS"]
    ELSE IF e = ord["f"] THEN ord["\f"]
    ELSE IF e = ord["n"] THEN ord["\n"]
    ELSE IF e = ord["r"] THEN ord["\r"]
    ELSE IF e = ord["t"] THEN ord["\t"]
    ELSE -1

RECURSIVE StrLoop(_, _)

\* parse_str's loop after parse_encoding returned or threw
StrEncoded(en) == IF Failed(en.st) THEN en ELSE StrLoop(en.st, en.str_end)

\* parse_str's switch on the character e after a backslash; st is past e
StrEscape(st, str_end, e) ==
    IF e = ord["u"] THEN StrEncoded(parse_encoding(st, str_end))
    ELSE IF EscapeChar(e) < 0
    THEN [st |-> Throw(Skip(st, -1), "invalid string syntax: bad escape character"),
          str_end |-> str_end]
    ELSE StrLoop([st EXCEPT !.buf = Poke(@, str_end, EscapeChar(e))], str_end + 1)

\* the loop body of parse_str for the character c = *m_next++; st is past c
StrChar(st, str_end, c) ==
    IF c = ord["\""] THEN [st |-> st, str_end |-> str_end]
    ELSE IF c = ord["\r"] \/ c = ord["\n"] \/ c = 0
    THEN [st |-> Throw(st, "invalid string syntax: line ending before closing quotes"),
          str_end |-> str_end]
    ELSE IF AsChar(c, st.schar) < ord[" "]
    THEN [st |-> Throw(st, "invalid string syntax: control characters not allowed"),
          str_end |-> str_end]
    ELSE IF c # ord["\\"]
    THEN StrLoop([st EXCEPT !.buf = Poke(@, str_end, c)], str_end + 1)
    ELSE StrEscape(Skip(st, 1), str_end, At(st.buf, st.m_next))

\* the loop of parse_str: [st, str_end]
StrLoop(st, str_end) == StrChar(Skip(st, 1), str_end, At(st.buf, st.m_next))

\* one pass of parse_str's loop body after a backslash and the character e
\* behind it; st is past e
StrIterEscape(st, str_end, e) ==
    IF e = ord["u"]
    THEN [st |-> parse_encoding(st, str_end).st,
          str_end |-> parse_encoding(st, str_end).str_end,
          more |-> ~Failed(parse_encoding(st, str_end).st)]
    ELSE IF EscapeChar(e) < 0
    THEN [st |-> Throw(Skip(st, -1), "invalid string syntax: bad escape character"),
          str_end |-> str_end, more |-> FALSE]
    ELSE [st |-> [st EXCEPT !.buf = Poke(@, str_end, EscapeChar(e))],
          str_end |-> str_end + 1, more |-> TRUE]

\* one pass of parse_str's loop body for the character c = *m_next++; st is
\* past c
StrIterChar(st, str_end, c) ==
    IF c = ord["\""] THEN [st |-> st, str_end |-> str_end, more |-> FALSE]
    ELSE IF c = ord["\r"] \/ c = ord["\n"] \/ c = 0
    THEN [st |-> Throw(st, "invalid string syntax: line ending before closing quotes"),
          str_end |-> str_end, more |-> FALSE]
    ELSE IF AsChar(c, st.schar) < ord[" "]
    THEN [st |-> Throw(st, "invalid string syntax: control characters not allowed"),
          str_end |-> str_end, more |-> FALSE]
    ELSE IF c # ord["\\"]
    THEN [st |-> [st EXCEPT !.buf = Poke(@, str_end, c)],
          str_end |-> str_end + 1, more |-> TRUE]
    ELSE StrIterEscape(Skip(st, 1), str_end, At(st.buf, st.m_next))

\* one pass of the loop of parse_str: [st, str_end, more]; more is whether
\* the loop goes on (no break, no throw)
StrIter(st, str_end) == StrIterChar(Skip(st, 1), str_end, At(st.buf, st.m_next))

\* parse_str after its loop, whose result is r: *str_end = 0
StrEnd(r, str) ==
    IF Failed(r.st) THEN [st |-> r.st, str |-> nullptr]
    ELSE [st |-> [r.st EXCEPT !.buf = Poke(@, r.str_end, 0)], str |-> str]

\* parse_str: [st, str]; str is nullptr when no string starts here
parse_str(st) ==
    IF ~TextAt(st, <<ord["\""]>>) THEN [st |-> st, str |-> nullptr]
    ELSE StrEnd(StrLoop(Skip(st, 1), st.m_next + 1), st.m_next + 1)

\* parse_val_str after parse_str, whose result is r
ValStr(r, idx) ==
    IF Failed(r.st) \/ r.str = nullptr THEN NotThis(r.st)
    ELSE [add_val(r.st, idx) EXCEPT !.v = init_str(@, r.str)]

parse_val_str(st, idx) == ValStr(parse_str(st), idx)


(***************************************************************************)
(* Containers and values                                                   *)
(***************************************************************************)
\* ObjImpl::find: the index the map holds for the name, -1 when it has none
find(obj, name) ==
    IF name \in DOMAIN obj.m_data.map THEN obj.m_data.map[name] ELSE -1

\* ObjImpl::add_member, for the member v that parse_val has just appended to
\* the object's values: [added, obj].  try_emplace keys the map by the
\* zero-terminated string at name (a std::string_view made from a char*)
add_member(obj, buf, name, idx, v) ==
    LET key == CStr(buf, name) IN
    IF key \in DOMAIN obj.m_data.map
    THEN [added |-> FALSE,
          obj |-> [obj EXCEPT !.m_data.values = Append(@, v)]]
    ELSE [added |-> TRUE,
          obj |-> [obj EXCEPT !.m_data.values = Append(@, [v EXCEPT !.m_name = name]),
                              !.m_data.map = (key :> idx) @@ @]]

RECURSIVE parse_val(_, _), ArrLoop(_, _), ObjLoop(_, _)

\* parse_val_arr's loop after an element: ']' ends it, ',' continues it
ArrSep(st, arr) ==
    IF TextAt(st, <<ord["]"]>>) THEN [st |-> Skip(st, 1), v |-> arr]
    ELSE IF ~TextAt(st, <<ord[","]>>)
    THEN [st |-> Throw(st, "invalid array syntax: expected ',' or ']'"), v |-> arr]
    ELSE ArrLoop(Skip(st, 1), arr)

\* parse_val_arr's loop after parse_val(arr), whose result is r
ArrElement(r, arr) ==
    IF Failed(r.st) THEN [st |-> r.st, v |-> arr]
    ELSE ArrSep(skip_white_space(r.st), [arr EXCEPT !.m_data.values = Append(@, r.v)])

\* parse_val_arr's loop after its first skip_white_space
ArrItem(st, arr) ==
    IF TextAt(st, <<ord["]"]>>) THEN [st |-> Skip(st, 1), v |-> arr]
    ELSE ArrElement(parse_val(st, get_len(arr)), arr)

\* parse_val_arr after '[' and add_val(parent)->init_arr(): the while loop
ArrLoop(st, arr) == ArrItem(skip_white_space(st), arr)

\* add_val(parent)->init_arr(): a is add_val's result
ArrStart(a) == ArrLoop(New(a.st), init_arr(a.v, a.st.brk))

parse_val_arr(st, idx) ==
    IF ~TextAt(st, <<ord["["]>>) THEN NotThis(st)
    ELSE ArrStart(add_val(Skip(st, 1), idx))

\* parse_val_obj's loop after a member: '}' ends it, ',' continues it
ObjSep(st, obj) ==
    IF TextAt(st, <<ord["}"]>>) THEN [st |-> Skip(st, 1), v |-> obj]
    ELSE IF ~TextAt(st, <<ord[","]>>)
    THEN [st |-> Throw(st, "invalid object syntax: expected ',' or '}'"), v |-> obj]
    ELSE ObjLoop(Skip(st, 1), obj)

\* parse_val_obj's loop after add_member, whose result is m
ObjAdded(st, m) ==
    IF ~m.added
    THEN [st |-> Throw(st, "invalid object syntax: duplicate member name"),
          v |-> m.obj]
    ELSE ObjSep(skip_white_space(st), m.obj)

\* parse_val_obj's loop after parse_val(obj), whose result is r
ObjMember(r, name, obj) ==
    IF Failed(r.st) THEN [st |-> r.st, v |-> obj]
    ELSE ObjAdded(r.st, add_member(obj, r.st.buf, name, get_len(obj), r.v))

\* parse_val_obj's loop after the member name and the white space behind it
ObjColon(st, name, obj) ==
    IF ~TextAt(st, <<ord[":"]>>)
    THEN [st |-> Throw(st, "invalid object syntax: expected ':' after member name"),
          v |-> obj]
    ELSE ObjMember(parse_val(skip_white_space(Skip(st, 1)), get_len(obj)), name, obj)

\* parse_val_obj's loop after parse_str, whose result is n
ObjName(n, obj) ==
    IF Failed(n.st) THEN [st |-> n.st, v |-> obj]
    ELSE IF n.str = nullptr
    THEN [st |-> Throw(n.st, "invalid object syntax: expected member name or '}'"),
          v |-> obj]
    ELSE ObjColon(skip_white_space(n.st), n.str, obj)

\* parse_val_obj's loop after its first skip_white_space
ObjItem(st, obj) ==
    IF TextAt(st, <<ord["}"]>>) THEN [st |-> Skip(st, 1), v |-> obj]
    ELSE ObjName(parse_str(st), obj)

\* parse_val_obj after '{' and add_val(parent)->init_obj(): the while loop
ObjLoop(st, obj) == ObjItem(skip_white_space(st), obj)

\* add_val(parent)->init_obj(): a is add_val's result
ObjStart(a) == ObjLoop(New(a.st), init_obj(a.v, a.st.brk))

parse_val_obj(st, idx) ==
    IF ~TextAt(st, <<ord["{"]>>) THEN NotThis(st)
    ELSE ObjStart(add_val(Skip(st, 1), idx))

\* parse_val's alternatives in the order tried; r is the result of the one
\* before: a value is returned, nullptr goes on to the next, a throw ends
ValOrNothing(st, r) ==
    IF r.v # NoVal \/ Failed(r.st) THEN r ELSE NotThis(Throw(st, "invalid syntax"))

ValOrObj(st, idx, r) ==
    IF r.v # NoVal \/ Failed(r.st) THEN r
    ELSE ValOrNothing(st, parse_val_obj(st, idx))

ValOrArr(st, idx, r) ==
    IF r.v # NoVal \/ Failed(r.st) THEN r
    ELSE ValOrObj(st, idx, parse_val_arr(st, idx))

ValOrStr(st, idx, r) ==
    IF r.v # NoVal \/ Failed(r.st) THEN r
    ELSE ValOrArr(st, idx, parse_val_str(st, idx))

ValOrNum(st, idx, r) ==
    IF r.v # NoVal THEN r ELSE ValOrStr(st, idx, parse_val_num(st, idx))

ValOrBool(st, idx, r) ==
    IF r.v # NoVal THEN r ELSE ValOrNum(st, idx, parse_val_bool(st, idx))

ValAfterSpace(st, idx) == ValOrBool(st, idx, parse_val_null(st, idx))

\* parse_val(parent): idx is the parent's length, -1 when there is no parent
parse_val(st, idx) == ValAfterSpace(skip_white_space(st), idx)

\* Parser::parse after its skip_white_space: 0 != *m_next throws
ParseEnd(st, v) ==
    IF At(st.buf, st.m_next) # 0
    THEN [st |-> Throw(st, "invalid value syntax"), v |-> v]
    ELSE [st |-> st, v |-> v]

\* Parser::parse after parse_val(nullptr), whose result is r
ParseRoot(r) == IF Failed(r.st) THEN r ELSE ParseEnd(skip_white_space(r.st), r.v)

\* Parser::parse: [st, v]; v is the root when st has no error
ParserParse(st) == ParseRoot(parse_val(st, -1))


(***************************************************************************)
(* The value tree.  A value is addressed by its path from the root: the    *)
(* m_idx of each value on the way down (<<>> is the root).                 *)
(***************************************************************************)
RECURSIVE ValueAt(_, _)
ValueAt(v, path) ==
    IF path = <<>> THEN v
    ELSE ValueAt(v.m_data.values[Head(path) + 1], Tail(path))

\* the paths of v's values, v's own path <<>> included
RECURSIVE Paths(_)
Paths(v) ==
    {<<>>} \cup
    (IF IsContainer(v)
     THEN UNION {{<<i - 1>> \o q : q \in Paths(v.m_data.values[i])} :
                 i \in 1..get_len(v)}
     ELSE {})

IsPrefix(p, q) == Len(p) <= Len(q) /\ SubSeq(q, 1, Len(p)) = p

\* the heap blocks ValImpl::clear deletes: the List or Dict of every
\* container of the tree
RECURSIVE ListBlocks(_)
ListBlocks(v) ==
    IF IsContainer(v)
    THEN {v.m_data.list} \cup
         UNION {ListBlocks(v.m_data.values[i]) : i \in 1..get_len(v)}
    ELSE {}

\* the heap blocks of a tree: its root ValImpl and its lists
TreeBlocks(root) ==
    IF root = NoVal THEN {} ELSE {root.addr} \cup ListBlocks(root)

(***************************************************************************)
(* Errors (ujson.h, ujson.cpp 841-957).  An error is a record; NoErr is no *)
(* error.  what names the class thrown.                                    *)
(***************************************************************************)
NoErr == [what |-> ""]

\* Val::get_name: the zero-terminated string at m_name
get_name(v, buf) == CStr(buf, v.m_name)

\* ErrValue::ErrValue(msg, v)
ErrValue(what, v, buf) ==
    [what |-> what, line |-> v.m_line_no, val_name |-> get_name(v, buf),
     val_idx |-> v.m_idx, val_type |-> v.m_type]

ErrBadType(v, buf, expected) ==
    [what |-> "ErrBadType", line |-> v.m_line_no, val_name |-> get_name(v, buf),
     val_idx |-> v.m_idx, val_type |-> v.m_type, expected_type |-> expected]

ErrBadIntRange(v, buf, lo, hi) ==
    [what |-> "ErrBadIntRange", line |-> v.m_line_no, val_name |-> get_name(v, buf),
     val_idx |-> v.m_idx, val_type |-> v.m_type, lo |-> lo, hi |-> hi]

ErrBadF64Range(v, buf, lo, hi) ==
    [what |-> "ErrBadF64Range", line |-> v.m_line_no, val_name |-> get_name(v, buf),
     val_idx |-> v.m_idx, val_type |-> v.m_type, lo |-> lo, hi |-> hi]

\* ErrMemberNotFound(obj, name): val_name = name; val_idx = -1; val_type = vtNone
ErrMemberNotFound(obj, name) ==
    [what |-> "ErrMemberNotFound", line |-> obj.m_line_no, val_name |-> name,
     val_idx |-> -1, val_type |-> vtNone]

ErrUnknownMember(v, buf) == ErrValue("ErrUnknownMember", v, buf)

ErrBadEnum(v, buf) == ErrValue("ErrBadEnum", v, buf)

\* std::out_of_range, thrown by std::vector::at
ErrOutOfRange == [what |-> "std::out_of_range"]

(***************************************************************************)
(* Accessors on one value.  A result is [err, val]; val is read only when  *)
(* err is NoErr.                                                           *)
(***************************************************************************)
Ok(val) == [err |-> NoErr, val |-> val]
Fail(err) == [err |-> err, val |-> 0]

\* val_cast<T, E>: E is the set of types whose bit is in the mask
val_cast(v, buf, E, T) ==
    IF v.m_type \notin E THEN Fail(ErrBadType(v, buf, T)) ELSE Ok(v)

as_bool(v, buf) == val_cast(v, buf, {vtBool}, vtBool)
as_int(v, buf)  == val_cast(v, buf, {vtInt}, vtInt)
as_f64(v, buf)  == val_cast(v, buf, {vtInt, vtF64}, vtF64)
as_str(v, buf)  == val_cast(v, buf, {vtStr}, vtStr)
as_arr(v, buf)  == val_cast(v, buf, {vtArr}, vtArr)
as_obj(v, buf)  == val_cast(v, buf, {vtObj}, vtObj)

\* Int::get(lo, hi)
IntGet(v, buf, lo, hi) ==
    LET num == v.m_data IN
    IF I64Le(lo, hi) /\ (I64Lt(num, lo) \/ I64Lt(hi, num))
    THEN Fail(ErrBadIntRange(v, buf, lo, hi))
    ELSE Ok(num)

INT32_MAX == 2147483647
INT32_MIN == -INT32_MAX - 1

\* the int32_t result of a get_i32: static_cast<int32_t> of a get(lo, hi)
CastI32(r) == IF r.err.what = "" THEN Ok(I64ToI32(r.val)) ELSE r

\* Int::get_i32()
IntGetI32(v, buf) == CastI32(IntGet(v, buf, I64OfI32(INT32_MIN), I64OfI32(INT32_MAX)))

\* a get_i32(lo, hi) that hands lo > hi on to get(lo, hi) as it is
IntGetI32RAsGiven(v, buf, lo, hi) ==
    CastI32(IntGet(v, buf, I64OfI32(lo), I64OfI32(hi)))

\* Int::get_i32(lo, hi), lo and hi int32_t
IntGetI32R(v, buf, lo, hi) ==
    IF lo > hi
    THEN CastI32(IntGet(v, buf, I64OfI32(INT32_MIN), I64OfI32(INT32_MAX)))
    ELSE CastI32(IntGet(v, buf, I64OfI32(lo), I64OfI32(hi)))

\* F64::get()
F64Get(v) == IF v.m_type = vtInt THEN F64OfI64(v.m_data) ELSE v.m_data

\* F64::get(lo, hi)
F64GetR(v, buf, lo, hi) ==
    LET num == F64Get(v) IN
    IF F64Le(lo, hi) /\ (F64Lt(num, lo) \/ F64Lt(hi, num))
    THEN Fail(ErrBadF64Range(v, buf, lo, hi))
    ELSE Ok(num)

\* Str::get(): the zero-terminated string the value points at
StrGet(v, buf) == CStr(buf, v.m_data)

\* Str::get_enum_idx(str_set, len): the first index i (from 0) with
\* strcmp(str, str_set[i]) == 0
get_enum_idx(v, buf, str_set) ==
    LET str  == StrGet(v, buf)
        hits == {i \in 1..Len(str_set) : str_set[i] = str}
    IN  IF hits = {} THEN Fail(ErrBadEnum(v, buf))
        ELSE Ok((CHOOSE i \in hits : \A j \in hits : i <= j) - 1)


(***************************************************************************)
(* State                                                                   *)
(***************************************************************************)
VARIABLES
    schar,   \* whether char is signed on the platform
    input,   \* the text the caller is preparing (no terminating zero yet)
    str,     \* the caller's buffer last handed to parse_in_place, as it is now
    m_root,  \* Json::m_root: the tree, NoVal for nullptr
    m_buf,   \* Json::m_buf: the document's own buffer, <<>> for nullptr
    base,    \* "m_buf" or "str": the buffer the tree's char pointers point into
    heap,    \* the addresses of the live ValImpl, List and Dict blocks
    brk,     \* the address the next new returns
    used,    \* the paths of the values whose m_type has vtUsedBit set
    refs,    \* the paths of the values the caller holds a reference to
    ret      \* what the last call returned or threw

vars == <<schar, input, str, m_root, m_buf, base, heap, brk, used, refs, ret>>

\* the buffer the tree's names and strings live in
Buf == IF base = "m_buf" THEN m_buf ELSE str

Node(p) == ValueAt(m_root, p)

\* ValImpl::mark_as_used on the value at path p
mark_as_used(flags, p) == flags \cup {p}

\* a Val* that is nullptr
NullRef == <<-1>>

(***************************************************************************)
(* Accessors on containers.  A result is [err, val, used]: used is the set *)
(* of flagged paths when the call returns or throws.                       *)
(***************************************************************************)
Res(err, val, flags) == [err |-> err, val |-> val, used |-> flags]

\* Arr::get_element(idx) on the container at p: the path of the element
Arr_get_element(p, idx) ==
    IF idx < 0 \/ idx >= get_len(Node(p))
    THEN Res(ErrOutOfRange, NullRef, used)
    ELSE Res(NoErr, Append(p, idx), mark_as_used(used, Append(p, idx)))

\* e holds the path of a value; apply the conversion and the getter to it
Then(e, conv(_, _), getter(_)) ==
    IF e.err.what # "" THEN e
    ELSE LET c == conv(Node(e.val), Buf) IN
         IF c.err.what # "" THEN Res(c.err, 0, e.used)
         ELSE LET g == getter(c.val) IN Res(g.err, g.val, e.used)

Arr_get_bool(p, idx) ==
    LET get(v) == Ok(v.m_data) IN Then(Arr_get_element(p, idx), as_bool, get)

Arr_get_i32(p, idx, lo, hi) ==
    LET get(v) == IntGetI32R(v, Buf, lo, hi)
    IN  Then(Arr_get_element(p, idx), as_int, get)

Arr_get_i64(p, idx, lo, hi) ==
    LET get(v) == IntGet(v, Buf, lo, hi)
    IN  Then(Arr_get_element(p, idx), as_int, get)

Arr_get_f64(p, idx, lo, hi) ==
    LET get(v) == F64GetR(v, Buf, lo, hi)
    IN  Then(Arr_get_element(p, idx), as_f64, get)

Arr_get_str(p, idx) ==
    LET get(v) == Ok(StrGet(v, Buf)) IN Then(Arr_get_element(p, idx), as_str, get)

\* Arr::get_arr, Arr::get_obj: the path of the element, as an Arr or an Obj
Arr_get_arr(p, idx) ==
    LET e == Arr_get_element(p, idx)
        get(v) == Ok(e.val)
    IN  Then(e, as_arr, get)

Arr_get_obj(p, idx) ==
    LET e == Arr_get_element(p, idx)
        get(v) == Ok(e.val)
    IN  Then(e, as_obj, get)

\* Obj::get_member_idx(name, required) on the object at p
Obj_get_member_idx(p, name, required) ==
    LET idx == find(Node(p), name) IN
    IF required /\ idx < 0
    THEN Res(ErrMemberNotFound(Node(p), name), -1, used)
    ELSE Res(NoErr, idx, used)

\* a get_member for which every member is required
Obj_get_member_required(p, name, required) ==
    LET i == Obj_get_member_idx(p, name, TRUE) IN
    IF i.err.what # "" THEN Res(i.err, NullRef, used)
    ELSE Arr_get_element(p, i.val)

\* Obj::get_member(name, required): the member's path, or NullRef
Obj_get_member(p, name, required) ==
    LET i == Obj_get_member_idx(p, name, required) IN
    IF i.err.what # "" THEN Res(i.err, NullRef, used)
    ELSE IF i.val >= 0 THEN Arr_get_element(p, i.val)
    ELSE Res(NoErr, NullRef, used)

\* A default is NoDef (the def pointer is nullptr) or <<the value>>
NoDef == <<>>

\* auto* v = get_member(name, nullptr == def); return v ? <getter> : *def;
WithDefault(p, name, def, conv(_, _), getter(_)) ==
    LET m == Obj_get_member(p, name, def = NoDef) IN
    IF m.err.what = "" /\ m.val = NullRef THEN Res(NoErr, def[1], m.used)
    ELSE Then(m, conv, getter)

Obj_get_bool(p, name, def) ==
    LET get(v) == Ok(v.m_data) IN WithDefault(p, name, def, as_bool, get)

Obj_get_i32(p, name, lo, hi, def) ==
    LET get(v) == IntGetI32R(v, Buf, lo, hi)
    IN  WithDefault(p, name, def, as_int, get)

Obj_get_i64(p, name, lo, hi, def) ==
    LET get(v) == IntGet(v, Buf, lo, hi)
    IN  WithDefault(p, name, def, as_int, get)

Obj_get_f64(p, name, lo, hi, def) ==
    LET get(v) == F64GetR(v, Buf, lo, hi)
    IN  WithDefault(p, name, def, as_f64, get)

Obj_get_str(p, name, def) ==
    LET get(v) == Ok(StrGet(v, Buf)) IN WithDefault(p, name, def, as_str, get)

\* Obj::get_str_enum_idx(name, str_set, len, required)
Obj_get_str_enum_idx(p, name, str_set, required) ==
    LET m == Obj_get_member(p, name, required)
        get(v) == get_enum_idx(v, Buf, str_set)
    IN  IF m.err.what = "" /\ m.val = NullRef THEN Res(NoErr, -1, m.used)
        ELSE Then(m, as_str, get)

\* Obj::get_str_enum(name, str_set, val_set), and with a default def
Obj_get_str_enum(p, name, str_set, val_set, def) ==
    LET i == Obj_get_str_enum_idx(p, name, str_set, def = NoDef) IN
    IF i.err.what # "" THEN i
    ELSE IF i.val >= 0 THEN Res(NoErr, val_set[i.val + 1], i.used)
    ELSE Res(NoErr, def[1], i.used)

Obj_get_arr(p, name) ==
    LET m == Obj_get_member(p, name, TRUE)
        get(v) == Ok(m.val)
    IN  Then(m, as_arr, get)

Obj_get_obj(p, name) ==
    LET m == Obj_get_member(p, name, TRUE)
        get(v) == Ok(m.val)
    IN  Then(m, as_obj, get)

(***************************************************************************)
(* reject_unknow_members and ignore_members                                *)
(***************************************************************************)
\* do_reject_unknow_members(v) for the value at p, from its element i on:
\* the error thrown, NoErr when the traversal ends
RECURSIVE RejectFrom(_, _, _)
RejectFrom(flags, p, i) ==
    LET v == Node(p)
        q == Append(p, i)
        deep == RejectFrom(flags, q, 0)
    IN  IF ~IsContainer(v) \/ i >= get_len(v) THEN NoErr
        ELSE IF q \notin flags /\ v.m_type = vtObj
        THEN ErrUnknownMember(Node(q), Buf)
        ELSE IF deep.what # "" THEN deep
        ELSE RejectFrom(flags, p, i + 1)

\* a traversal that does not descend from an array
RejectNotBelowArray(flags, p) ==
    IF Node(p).m_type = vtArr THEN NoErr ELSE RejectFrom(flags, p, 0)

do_reject_unknow_members(flags, p) == RejectFrom(flags, p, 0)

\* do_ignore_members(v) for the value at p: the flags afterwards
RECURSIVE IgnoreFrom(_, _, _)
IgnoreFrom(flags, p, i) ==
    LET v == Node(p)
        q == Append(p, i)
    IN  IF ~IsContainer(v) \/ i >= get_len(v) THEN flags
        ELSE IgnoreFrom(IgnoreFrom(mark_as_used(flags, q), q, 0), p, i + 1)

\* a marking that stops at the direct children
IgnoreChildrenOnly(flags, p) ==
    flags \cup {Append(p, i) : i \in 0..(get_len(Node(p)) - 1)}

do_ignore_members(flags, p) == IgnoreFrom(flags, p, 0)


(***************************************************************************)
(* class Json                                                              *)
(***************************************************************************)
\* a free_root that deletes nothing
free_root_nothing(h, root) == h

\* Json::free_root: the heap after v->clear(); delete v;
free_root(h, root) == h \ TreeBlocks(root)

\* a zero-terminated copy of the first len characters of s (strncpy_s, then
\* m_buf[len] = 0), len at most strlen(s)
CopyOf(s, len) == Append(SubSeq(s, 1, len), 0)

\* what a call of parse or parse_in_place leaves behind, r being the result
\* of Parser::parse: a throw leaves m_root as free_root set it
ParseOutcome(op, r) ==
    /\ m_root' = IF Failed(r.st) THEN NoVal ELSE r.v
    /\ heap' = r.st.heap
    /\ brk' = r.st.brk
    /\ used' = {}
    /\ refs' = IF Failed(r.st) THEN {} ELSE {<<>>}
    /\ ret' = [op |-> op, err |-> r.st.err, line |-> r.st.m_line_count]

\* Json::parse(s, len): s is zero-terminated; len = 0 asks for strlen(s)
JsonParse(s, len) ==
    LET n == IF len = 0 THEN strlen(s) ELSE len
        r == ParserParse(Parser(CopyOf(s, n), schar, free_root(heap, m_root), brk))
    IN  /\ m_buf' = r.st.buf
        /\ base' = "m_buf"
        /\ ParseOutcome("parse", r)
        /\ UNCHANGED <<schar, str>>

\* Json::parse_in_place(s): s is the caller's zero-terminated buffer
JsonParseInPlace(s) ==
    LET r == ParserParse(Parser(s, schar, free_root(heap, m_root), brk))
    IN  /\ str' = r.st.buf
        /\ base' = "str"
        /\ ParseOutcome("parse_in_place", r)
        /\ UNCHANGED <<schar, m_buf>>

\* Json::clear
JsonClear ==
    /\ heap' = free_root(heap, m_root)
    /\ m_root' = NoVal
    /\ m_buf' = <<>>
    /\ used' = {}
    /\ refs' = {}
    /\ ret' = [op |-> "clear", err |-> ""]
    /\ UNCHANGED <<schar, str, base, brk>>

\* Json(): m_root = nullptr, m_buf = nullptr; nothing returned yet
NewJson ==
    /\ str = <<>>
    /\ m_root = NoVal
    /\ m_buf = <<>>
    /\ base = "m_buf"
    /\ heap = {}
    /\ brk = 1
    /\ used = {}
    /\ refs = {}
    /\ ret = [op |-> "Json", err |-> ""]

\* the bytes of a text given as characters, zero-terminated
Z(cs) == [i \in 1..(Len(cs) + 1) |-> IF i <= Len(cs) THEN ord[cs[i]] ELSE 0]


\* the bytes of a text given as characters, not terminated
B(cs) == [i \in 1..Len(cs) |-> ord[cs[i]]]

RECURSIVE Flatten(_)
Flatten(ss) == IF ss = <<>> THEN <<>> ELSE Head(ss) \o Flatten(Tail(ss))

\* the zero-terminated buffer holding the pieces of the input
InputText == Append(Flatten(input), 0)

(***************************************************************************)
(* SpecGrammar: the caller builds a document out of tokens, then parses it *)
(* in place.                                                               *)
(***************************************************************************)
MaxTokens == 5

tok_comma == B(<<",">>)
tok_close_arr == B(<<"]">>)
tok_close_obj == B(<<"}">>)
tok_comma_blank == B(<<",", " ", "/", "/", "c", "\n">>)

GrammarTokens ==
    { B(<<"[">>), tok_close_arr, B(<<"{">>), tok_close_obj,
      tok_comma, tok_comma_blank,
      B(<<"1">>),
      B(<<"\"", "a", "\"", ":", "1">>),
      B(<<"\"", "\"", ":", "1">>) }

GrammarInit ==
    /\ schar \in BOOLEAN
    /\ input = <<>>
    /\ NewJson

GrammarAppend(tok) ==
    /\ ret.op = "Json"
    /\ Len(input) < MaxTokens
    /\ input' = Append(input, tok)
    /\ UNCHANGED <<schar, str, m_root, m_buf, base, heap, brk, used, refs, ret>>

GrammarParse ==
    /\ ret.op = "Json"
    /\ JsonParseInPlace(InputText)
    /\ UNCHANGED input

GrammarNext ==
    \/ \E tok \in GrammarTokens : GrammarAppend(tok)
    \/ GrammarParse

SpecGrammar == GrammarInit /\ [][GrammarNext]_vars

Parsed == ret.op \in {"parse", "parse_in_place"}
ParsedOk == Parsed /\ ret.err = ""

\* a ',' token directly before a closing ']' or '}' token
HasTrailingComma ==
    \E i \in 1..(Len(input) - 1) :
        /\ input[i] \in {tok_comma, tok_comma_blank}
        /\ input[i + 1] \in {tok_close_arr, tok_close_obj}

\* C1: an input in which a ',' is followed, after optional white space and
\* comments, directly by the closing ']' or '}' is rejected with a syntax
\* error.
C1_TrailingCommaRejected == Parsed /\ HasTrailingComma => ret.err # ""

\* `[1,]` has been parsed, and parsing succeeded
C1_Accepted ==
    /\ ParsedOk
    /\ input = <<B(<<"[">>), B(<<"1">>), tok_comma, tok_close_arr>>
    /\ get_len(m_root) = 1

\* every member of every Object of the tree v has a non-empty name, and no
\* two members of one Object have the same name
RECURSIVE MembersNamed(_)
MembersNamed(v) ==
    IF ~IsContainer(v) THEN TRUE
    ELSE /\ \A i \in 1..get_len(v) : MembersNamed(v.m_data.values[i])
         /\ v.m_type = vtObj =>
              /\ \A i \in 1..get_len(v) : get_name(v.m_data.values[i], Buf) # <<>>
              /\ \A i, j \in 1..get_len(v) :
                   i # j => get_name(v.m_data.values[i], Buf)
                              # get_name(v.m_data.values[j], Buf)

\* C7: in every successfully parsed Document every member of every Object
\* has a non-empty name that no other member of the same Object has.
C7_MembersNamed == ParsedOk => MembersNamed(m_root)

\* `{"":1}` has been parsed, and parsing succeeded: the member has no name
C7_EmptyName ==
    /\ ParsedOk
    /\ m_root.m_type = vtObj
    /\ get_len(m_root) = 1
    /\ get_name(m_root.m_data.values[1], Buf) = <<>>

\* no two members of one Object of the tree v have the same name
RECURSIVE MembersUnique(_)
MembersUnique(v) ==
    IF ~IsContainer(v) THEN TRUE
    ELSE /\ \A i \in 1..get_len(v) : MembersUnique(v.m_data.values[i])
         /\ v.m_type = vtObj =>
              \A i, j \in 1..get_len(v) :
                   i # j => get_name(v.m_data.values[i], Buf)
                              # get_name(v.m_data.values[j], Buf)

\* the part of C7 the parser keeps: member names are unique in their Object
UniqueNames == ParsedOk => MembersUnique(m_root)

(***************************************************************************)
(* SpecStr: the caller writes a string literal out of characters and       *)
(* escapes, then parses it as a single-value document with Json::parse.    *)
(***************************************************************************)
MaxPieces == 3

\* the pieces of a string literal: src is what is written between the
\* quotes, chr the bytes JSON says it denotes (UTF-8)
StrPieces ==
    { [src |-> B(<<"a">>),                  chr |-> <<97>>],
      [src |-> B(<<"\\", "\"">>),           chr |-> <<34>>],
      [src |-> B(<<"\\", "\\">>),           chr |-> <<92>>],
      [src |-> B(<<"\\", "/">>),            chr |-> <<47>>],
      [src |-> B(<<"\\", "b">>),            chr |-> <<8>>],
      [src |-> B(<<"\\", "f">>),            chr |-> <<12>>],
      [src |-> B(<<"\\", "n">>),            chr |-> <<10>>],
      [src |-> B(<<"\\", "r">>),            chr |-> <<13>>],
      [src |-> B(<<"\\", "t">>),            chr |-> <<9>>],
      [src |-> B(<<"\\", "u", "0", "0", "4", "1">>), chr |-> <<65>>],
      [src |-> B(<<"\\", "u", "0", "0", "E", "9">>), chr |-> <<195, 169>>],
      [src |-> B(<<"\\", "u", "2", "0", "a", "c">>), chr |-> <<226, 130, 172>>],
      [src |-> B(<<"\\", "u", "d", "8", "3", "d", "\\", "u", "d", "e", "0", "0">>),
       chr |-> <<240, 159, 152, 128>>] }

piece_quote == B(<<"\\", "\"">>)

\* the bytes the pieces written denote
RECURSIVE Denoted(_)
Denoted(ps) ==
    IF ps = <<>> THEN <<>>
    ELSE (CHOOSE e \in StrPieces : e.src = Head(ps)).chr \o Denoted(Tail(ps))

\* the document: the pieces between quotes, zero-terminated
StrText == <<ord["\""]>> \o Flatten(input) \o <<ord["\""], 0>>

StrInit ==
    /\ schar \in BOOLEAN
    /\ input = <<>>
    /\ NewJson

StrAppend(e) ==
    /\ ret.op = "Json"
    /\ Len(input) < MaxPieces
    /\ input' = Append(input, e.src)
    /\ UNCHANGED <<schar, str, m_root, m_buf, base, heap, brk, used, refs, ret>>

StrParse ==
    /\ ret.op = "Json"
    /\ JsonParse(StrText, 0)
    /\ UNCHANGED input

StrNext ==
    \/ \E e \in StrPieces : StrAppend(e)
    \/ StrParse

SpecStr == StrInit /\ [][StrNext]_vars

\* the document parsed to the string the pieces denote
StrDecoded ==
    /\ ret.err = ""
    /\ m_root.m_type = vtStr
    /\ StrGet(m_root, Buf) = Denoted(input)

\* C8: each of the escapes \" \\ \/ \b \f \n \r \t and \uXXXX is accepted
\* inside a string literal and decoded to the character it denotes.
C8_EscapesDecoded == Parsed => StrDecoded

\* the literal "\"" has been parsed, and the parser threw
C8_QuoteRejected ==
    /\ Parsed
    /\ input = <<piece_quote>>
    /\ ret.err = "invalid string syntax: bad escape character"

\* the part of C8 the parser keeps: a literal without \" is decoded
OtherEscapesDecoded ==
    Parsed /\ (\A i \in 1..Len(input) : input[i] # piece_quote) => StrDecoded


(***************************************************************************)
(* SpecNum: the caller writes an integer token digit by digit, starting    *)
(* from nothing, a sign, or the first eighteen digits of the limits, then  *)
(* parses it as a single-value document.                                   *)
(***************************************************************************)
MaxExtraDigits == 2

NumPrefixes ==
    { <<>>,
      B(<<"-">>),
      B(<<"9", "2", "2", "3", "3", "7", "2", "0", "3", "6", "8", "5", "4", "7", "7", "5", "8", "0">>),
      B(<<"-", "9", "2", "2", "3", "3", "7", "2", "0", "3", "6", "8", "5", "4", "7", "7", "5", "8", "0">>),
      B(<<"-", "9", "2", "2", "3", "3", "7", "2", "0", "3", "6", "8", "5", "4", "7", "7", "5", "7">>) }

DigitChars == {"0", "1", "2", "3", "4", "5", "6", "7", "8", "9"}

NumInit ==
    /\ schar \in BOOLEAN
    /\ input \in {<<p>> : p \in NumPrefixes}
    /\ NewJson

NumAppend(d) ==
    /\ ret.op = "Json"
    /\ Len(input) < 1 + MaxExtraDigits
    /\ input' = Append(input, B(<<d>>))
    /\ UNCHANGED <<schar, str, m_root, m_buf, base, heap, brk, used, refs, ret>>

NumParse ==
    /\ ret.op = "Json"
    /\ JsonParse(InputText, 0)
    /\ UNCHANGED input

NumNext ==
    \/ \E d \in DigitChars : NumAppend(d)
    \/ NumParse

SpecNum == NumInit /\ [][NumNext]_vars

\* the token written: its sign and the values of its digits
NumNegative == Flatten(input) # <<>> /\ Head(Flatten(input)) = ord["-"]
NumDigitValues ==
    LET t == IF NumNegative THEN Tail(Flatten(input)) ELSE Flatten(input)
    IN  [i \in 1..Len(t) |-> t[i] - ord["0"]]

\* an integer token of the number grammar: '0', or a non-zero digit
\* followed by digits
IsIntToken ==
    /\ Len(NumDigitValues) >= 1
    /\ Len(NumDigitValues) > 1 => NumDigitValues[1] # 0

\* the digits of 2^63 - 1 and of 2^63
I64MaxDigits == <<9, 2, 2, 3, 3, 7, 2, 0, 3, 6, 8, 5, 4, 7, 7, 5, 8, 0, 7>>
I64MinDigits == <<9, 2, 2, 3, 3, 7, 2, 0, 3, 6, 8, 5, 4, 7, 7, 5, 8, 0, 8>>

\* the token's value lies in -2^63 .. 2^63 - 1
NumInRange ==
    \/ Len(NumDigitValues) < 19
    \/ /\ Len(NumDigitValues) = 19
       /\ ~DigitsLt(IF NumNegative THEN I64MinDigits ELSE I64MaxDigits, NumDigitValues)

\* the root is an Int whose decimal rendering is the token
NumExact ==
    /\ ret.err = ""
    /\ m_root.m_type = vtInt
    /\ U64Digits(I64Mag(m_root.m_data)) = StripLeft(NumDigitValues)
    /\ I64IsNeg(m_root.m_data) = (NumNegative /\ StripLeft(NumDigitValues) # <<>>)

\* C6: an integer token whose value lies in the signed 64-bit range parses
\* to an Int equal to that value; any other integer token is rejected with
\* the syntax error for an integer that does not fit, so no value wraps
\* around and none becomes a Float.
C6_IntExactOrRejected ==
    Parsed /\ IsIntToken =>
        IF NumInRange THEN NumExact
        ELSE /\ ret.err = "invalid number syntax: integer doesn't fit in 64 bits"
             /\ m_root = NoVal

\* -9223372036854775808 has been parsed to the Int -2^63
C6_MinParsed ==
    /\ ParsedOk
    /\ NumNegative
    /\ NumDigitValues = I64MinDigits
    /\ m_root.m_type = vtInt
    /\ m_root.m_data = <<0, 0, 0, 32768>>

\* 9223372036854775807 parses and 9223372036854775808 does not
NumMaxBoundary ==
    Parsed /\ ~NumNegative =>
        /\ NumDigitValues = I64MaxDigits =>
             ret.err = "" /\ m_root.m_data = <<65535, 65535, 65535, 32767>>
        /\ NumDigitValues = I64MinDigits => ret.err # ""


(***************************************************************************)
(* SpecDoc: one Json document on which the caller calls parse,             *)
(* parse_in_place and clear in any order, with well-formed and malformed   *)
(* texts.                                                                  *)
(***************************************************************************)
\* parse and parse_in_place are called while the next address is at most this
MaxBlocks == 4

doc_int   == B(<<"1">>)
doc_tree  == B(<<"[", "1", ",", "{", "\"", "a", "\"", ":", "2", "}", "]">>)
doc_open  == B(<<"[", "1", ",">>)
doc_junk  == B(<<"1", " ", "x">>)
doc_close == B(<<"]">>)

Docs == {doc_int, doc_tree, doc_open, doc_junk, doc_close}

\* the len arguments of parse: 0 for strlen, or a shorter length
DocLens == {0, 2}

DocInit ==
    /\ schar \in BOOLEAN
    /\ input = <<>>
    /\ NewJson

DocParse(d, len) ==
    /\ brk <= MaxBlocks
    /\ len <= Len(d)
    /\ input' = <<d>>
    /\ JsonParse(Append(d, 0), len)

DocParseInPlace(d) ==
    /\ brk <= MaxBlocks
    /\ input' = <<d>>
    /\ JsonParseInPlace(Append(d, 0))

DocClear ==
    /\ JsonClear
    /\ UNCHANGED input

DocNext ==
    \/ \E d \in Docs, len \in DocLens : DocParse(d, len)
    \/ \E d \in Docs : DocParseInPlace(d)
    \/ DocClear

SpecDoc == DocInit /\ [][DocNext]_vars

\* the Document holds a root only if the last call was a parse that succeeded
RootOnlyAfterParse == m_root # NoVal => ParsedOk

\* a parse step leaves no block of the tree held before it allocated
PriorTreeReleased == Parsed' => TreeBlocks(m_root) \cap heap' = {}

\* C4: the Document holds a root tree only if the most recent call was a
\* parse that succeeded (a failed parse leaves no root), and every parse
\* releases the tree held before it.
C4_RootOnlyAfterSuccess == []RootOnlyAfterParse /\ [][PriorTreeReleased]_vars

\* a tree is held that is not the first one built, and no block of an
\* earlier tree is allocated
C4_Reparsed ==
    /\ ParsedOk
    /\ m_root.addr > 1
    /\ IsContainer(m_root)
    /\ heap = TreeBlocks(m_root)

\* C5: when parsing fails, every node the parser allocated has been freed
\* when the error reaches the caller: no block is allocated that the
\* Document's tree does not hold.
C5_FailedParseFreesAll == Parsed /\ ret.err # "" => heap \subseteq TreeBlocks(m_root)

\* `[1,` has been parsed, the parser threw, and the root and the list it
\* allocated are still allocated
C5_Leaked ==
    /\ Parsed
    /\ ret.err # ""
    /\ input = <<doc_open>>
    /\ m_root = NoVal
    /\ Cardinality(heap) = 2

\* calls that do not throw leave no block allocated outside the tree
NoLeakWithoutThrow == [][ret'.err = "" => heap' \ TreeBlocks(m_root') \subseteq heap]_vars


(***************************************************************************)
(* SpecAcc: the caller parses a nested document and then walks it: it      *)
(* converts the values it holds, reads elements and members, marks         *)
(* subtrees as accessed and asks for unknown members to be rejected.       *)
(* ret is [op, p, at, err, e, val, ign]: the call, the value it was made    *)
(* on, the value it read (NullRef for none), the class thrown ("" for      *)
(* none), the exception, the result, and the value of the latest           *)
(* ignore_members since the parse (NullRef for none).                      *)
(***************************************************************************)
\* element indices asked for run from -1 to MaxIdx
MaxIdx == 2

\* {"a":[{"b":1},true],
\* "c":"s"}
acc_doc_obj ==
    B(<<"{", "\"", "a", "\"", ":", "[", "{", "\"", "b", "\"", ":", "1", "}", ",",
        "t", "r", "u", "e", "]", ",",
        "\n", "\"", "c", "\"", ":", "\"", "s", "\"", "}">>)
\* [{"a":{"b":true}}]
acc_doc_arr ==
    B(<<"[", "{", "\"", "a", "\"", ":", "{", "\"", "b", "\"", ":", "t", "r", "u", "e", "}",
        "}", "]">>)

AccDocs == {acc_doc_obj, acc_doc_arr}

AccNames == {B(<<"a">>), B(<<"b">>), B(<<"c">>)}

\* the defaults of the typed getters of an Object: none, or one value
AccBoolDefs == {NoDef, <<FALSE>>}
AccI32Defs  == {NoDef, <<7>>}
AccI64Defs  == {NoDef, <<I64OfSmall(7)>>}
AccF64Defs  == {NoDef, <<F64Of(FALSE, <<1>>, 0)>>}
AccStrDefs  == {NoDef, <<B(<<"t">>)>>}
AccEnumDefs == {NoDef, <<"Default">>}

\* the str_set and val_set of get_str_enum
AccEnumSet  == <<B(<<"s">>), B(<<"t">>)>>
AccEnumVals == <<"First", "Second">>

AsOps == {"as_bool", "as_int", "as_f64", "as_str", "as_arr", "as_obj"}

\* the conversion named op
AsCall(op, v, buf) ==
    CASE op = "as_bool" -> as_bool(v, buf)
      [] op = "as_int"  -> as_int(v, buf)
      [] op = "as_f64"  -> as_f64(v, buf)
      [] op = "as_str"  -> as_str(v, buf)
      [] op = "as_arr"  -> as_arr(v, buf)
      [] op = "as_obj"  -> as_obj(v, buf)

\* the caller holds a reference to the value at p of the Document's tree
Holds(p) == m_root # NoVal /\ p \in refs

\* the value the latest ignore_members since the parse was called on
Ignored == IF "ign" \in DOMAIN ret THEN ret.ign ELSE NullRef

\* the state after an accessor returned or threw r; the caller keeps the
\* references in got
Returned(op, p, at, r, got) ==
    /\ ret' = [op |-> op, p |-> p, at |-> at, err |-> r.err.what, e |-> r.err,
               val |-> r.val,
               ign |-> IF op = "ignore_members" THEN p ELSE Ignored]
    /\ used' = r.used
    /\ refs' = refs \cup got
    /\ UNCHANGED <<schar, input, str, m_root, m_buf, base, heap, brk>>

\* the references a getter of a value or a view hands out
Got(r) == IF r.err.what = "" /\ r.val # NullRef THEN {r.val} ELSE {}

AccInit ==
    /\ schar \in BOOLEAN
    /\ input = <<>>
    /\ NewJson

AccParse(d) ==
    /\ ret.op = "Json"
    /\ input' = <<d>>
    /\ JsonParseInPlace(Append(d, 0))

AccAs(p, op) ==
    /\ Holds(p)
    /\ LET c == AsCall(op, Node(p), Buf)
       IN  Returned(op, p, p, Res(c.err, p, used), {})

AccGetElement(p, idx) ==
    /\ Holds(p)
    /\ IsContainer(Node(p))
    /\ LET r == Arr_get_element(p, idx)
       IN  Returned("Arr::get_element", p, r.val, r, Got(r))

AccGetMember(p, name, required) ==
    /\ Holds(p)
    /\ Node(p).m_type = vtObj
    /\ LET r == Obj_get_member(p, name, required)
       IN  Returned("Obj::get_member", p, r.val, r, Got(r))

\* the element Arr::get_element(idx) reads, NullRef when there is none
ElementAt(p, idx) ==
    IF idx >= 0 /\ idx < get_len(Node(p)) THEN Append(p, idx) ELSE NullRef

\* the member of the given name, NullRef when there is none
MemberAt(p, name) ==
    IF \E i \in 1..get_len(Node(p)) : get_name(Node(p).m_data.values[i], Buf) = name
    THEN Append(p, (CHOOSE i \in 1..get_len(Node(p)) :
                      get_name(Node(p).m_data.values[i], Buf) = name) - 1)
    ELSE NullRef

AccArrGetArr(p, idx) ==
    /\ Holds(p)
    /\ IsContainer(Node(p))
    /\ LET r == Arr_get_arr(p, idx)
       IN  Returned("Arr::get_arr", p, ElementAt(p, idx), r, Got(r))

AccArrGetObj(p, idx) ==
    /\ Holds(p)
    /\ IsContainer(Node(p))
    /\ LET r == Arr_get_obj(p, idx)
       IN  Returned("Arr::get_obj", p, ElementAt(p, idx), r, Got(r))

\* the typed getters of an element, lo and hi at their defaults 0 and -1
AccArrGetBool(p, idx) ==
    /\ Holds(p)
    /\ IsContainer(Node(p))
    /\ Returned("Arr::get_bool", p, ElementAt(p, idx), Arr_get_bool(p, idx), {})

AccArrGetI32(p, idx) ==
    /\ Holds(p)
    /\ IsContainer(Node(p))
    /\ Returned("Arr::get_i32", p, ElementAt(p, idx), Arr_get_i32(p, idx, 0, -1), {})

AccArrGetI64(p, idx) ==
    /\ Holds(p)
    /\ IsContainer(Node(p))
    /\ Returned("Arr::get_i64", p, ElementAt(p, idx),
                Arr_get_i64(p, idx, I64OfSmall(0), I64OfSmall(-1)), {})

AccArrGetF64(p, idx) ==
    /\ Holds(p)
    /\ IsContainer(Node(p))
    /\ Returned("Arr::get_f64", p, ElementAt(p, idx),
                Arr_get_f64(p, idx, F64Of(FALSE, <<>>, 0), F64Of(TRUE, <<1>>, 0)), {})

AccArrGetStr(p, idx) ==
    /\ Holds(p)
    /\ IsContainer(Node(p))
    /\ Returned("Arr::get_str", p, ElementAt(p, idx), Arr_get_str(p, idx), {})

AccObjGetArr(p, name) ==
    /\ Holds(p)
    /\ Node(p).m_type = vtObj
    /\ LET r == Obj_get_arr(p, name)
       IN  Returned("Obj::get_arr", p, MemberAt(p, name), r, Got(r))

AccObjGetObj(p, name) ==
    /\ Holds(p)
    /\ Node(p).m_type = vtObj
    /\ LET r == Obj_get_obj(p, name)
       IN  Returned("Obj::get_obj", p, MemberAt(p, name), r, Got(r))

\* the typed getters of a member, lo and hi at their defaults 0 and -1
AccObjGetBool(p, name, def) ==
    /\ Holds(p)
    /\ Node(p).m_type = vtObj
    /\ Returned("Obj::get_bool", p, MemberAt(p, name), Obj_get_bool(p, name, def), {})

AccObjGetI32(p, name, def) ==
    /\ Holds(p)
    /\ Node(p).m_type = vtObj
    /\ Returned("Obj::get_i32", p, MemberAt(p, name),
                Obj_get_i32(p, name, 0, -1, def), {})

AccObjGetI64(p, name, def) ==
    /\ Holds(p)
    /\ Node(p).m_type = vtObj
    /\ Returned("Obj::get_i64", p, MemberAt(p, name),
                Obj_get_i64(p, name, I64OfSmall(0), I64OfSmall(-1), def), {})

AccObjGetF64(p, name, def) ==
    /\ Holds(p)
    /\ Node(p).m_type = vtObj
    /\ Returned("Obj::get_f64", p, MemberAt(p, name),
                Obj_get_f64(p, name, F64Of(FALSE, <<>>, 0), F64Of(TRUE, <<1>>, 0), def),
                {})

AccObjGetStr(p, name, def) ==
    /\ Holds(p)
    /\ Node(p).m_type = vtObj
    /\ Returned("Obj::get_str", p, MemberAt(p, name), Obj_get_str(p, name, def), {})

AccObjGetStrEnum(p, name, def) ==
    /\ Holds(p)
    /\ Node(p).m_type = vtObj
    /\ Returned("Obj::get_str_enum", p, MemberAt(p, name),
                Obj_get_str_enum(p, name, AccEnumSet, AccEnumVals, def), {})

\* Val::reject_unknow_members on the value at p
AccReject(p) ==
    /\ Holds(p)
    /\ Returned("reject_unknow_members", p, NullRef,
                Res(do_reject_unknow_members(used, p), 0, used), {})

\* Val::ignore_members on the value at p
AccIgnore(p) ==
    /\ Holds(p)
    /\ Returned("ignore_members", p, NullRef,
                Res(NoErr, 0, do_ignore_members(used, p)), {})

AccNext ==
    \/ \E d \in AccDocs : AccParse(d)
    \/ \E p \in refs, op \in AsOps : AccAs(p, op)
    \/ \E p \in refs, idx \in -1..MaxIdx : AccGetElement(p, idx)
    \/ \E p \in refs, name \in AccNames, required \in BOOLEAN :
          AccGetMember(p, name, required)
    \/ \E p \in refs, idx \in -1..MaxIdx : AccArrGetArr(p, idx)
    \/ \E p \in refs, idx \in -1..MaxIdx : AccArrGetObj(p, idx)
    \/ \E p \in refs, idx \in -1..MaxIdx : AccArrGetBool(p, idx)
    \/ \E p \in refs, idx \in -1..MaxIdx : AccArrGetI32(p, idx)
    \/ \E p \in refs, idx \in -1..MaxIdx : AccArrGetI64(p, idx)
    \/ \E p \in refs, idx \in -1..MaxIdx : AccArrGetF64(p, idx)
    \/ \E p \in refs, idx \in -1..MaxIdx : AccArrGetStr(p, idx)
    \/ \E p \in refs, name \in AccNames : AccObjGetArr(p, name)
    \/ \E p \in refs, name \in AccNames : AccObjGetObj(p, name)
    \/ \E p \in refs, name \in AccNames, def \in AccBoolDefs :
          AccObjGetBool(p, name, def)
    \/ \E p \in refs, name \in AccNames, def \in AccI32Defs :
          AccObjGetI32(p, name, def)
    \/ \E p \in refs, name \in AccNames, def \in AccI64Defs :
          AccObjGetI64(p, name, def)
    \/ \E p \in refs, name \in AccNames, def \in AccF64Defs :
          AccObjGetF64(p, name, def)
    \/ \E p \in refs, name \in AccNames, def \in AccStrDefs :
          AccObjGetStr(p, name, def)
    \/ \E p \in refs, name \in AccNames, def \in AccEnumDefs :
          AccObjGetStrEnum(p, name, def)
    \/ \E p \in refs : AccReject(p)
    \/ \E p \in refs : AccIgnore(p)

SpecAcc == AccInit /\ [][AccNext]_vars


\* the values below the value at p
Under(p) == {p \o r : r \in Paths(Node(p)) \ {<<>>}}

Parent(q) == SubSeq(q, 1, Len(q) - 1)

\* the direct members of the Objects at and below p that are not flagged
UnflaggedMembers(p) ==
    {q \in Under(p) : Node(Parent(q)).m_type = vtObj /\ q \notin used}

\* C2: reject_unknow_members on a value succeeds if and only if every
\* Object at or below it, however reached, has all its direct members
\* flagged; when it fails it throws ErrUnknownMember for a member of an
\* Object that is not flagged, never for an array element.
C2_RejectIffAllMembersFlagged ==
    ret.op = "reject_unknow_members" =>
        /\ ret.err = "" <=> UnflaggedMembers(ret.p) = {}
        /\ ret.err # "" =>
             /\ ret.err = "ErrUnknownMember"
             /\ \E q \in UnflaggedMembers(ret.p) :
                  /\ ret.e.val_name = get_name(Node(q), Buf)
                  /\ ret.e.val_idx = Node(q).m_idx
                  /\ ret.e.val_type = Node(q).m_type
                  /\ ret.e.line = Node(q).m_line_no

\* reject_unknow_members was called on an array whose elements were never
\* read, and threw for the member of an Object in it
C2_RejectedThroughArray ==
    /\ ret.op = "reject_unknow_members"
    /\ Node(ret.p).m_type = vtArr
    /\ Under(ret.p) \cap used = {}
    /\ ret.err = "ErrUnknownMember"

\* reject_unknow_members succeeded on a root with Objects below it
RejectPassed ==
    /\ ret.op = "reject_unknow_members"
    /\ ret.p = <<>>
    /\ \E q \in Under(<<>>) : Len(q) > 1 /\ Node(Parent(q)).m_type = vtObj
    /\ ret.err = ""

GetOps ==
    {"Arr::get_element", "Arr::get_bool", "Arr::get_i32", "Arr::get_i64",
     "Arr::get_f64", "Arr::get_str", "Arr::get_arr", "Arr::get_obj",
     "Obj::get_member", "Obj::get_bool", "Obj::get_i32", "Obj::get_i64",
     "Obj::get_f64", "Obj::get_str", "Obj::get_str_enum", "Obj::get_arr",
     "Obj::get_obj"}

\* the value a getter has read and returned, or returned the content of,
\* is flagged
GetterFlags ==
    ret.op \in GetOps /\ ret.err = "" /\ ret.at # NullRef => ret.at \in used

\* the root is never flagged
RootNotFlagged == <<>> \notin used

\* a conversion changes no flag
AsKeepsFlags == ret'.op \in AsOps => used' = used

\* What the code does: Arr::get_element, Obj::get_member and the typed
\* getters built on them flag the value they read; the conversions as_bool,
\* as_int, as_f64, as_str, as_arr and as_obj set no flag, and the root, which
\* no getter returns, is never flagged.
GettersFlagConversionsDoNot ==
    [](GetterFlags /\ RootNotFlagged) /\ [][AsKeepsFlags]_vars

\* a conversion succeeded on the root after members were read, and the root
\* is not flagged
C3_RootConverted ==
    /\ ret.op \in AsOps
    /\ ret.err = ""
    /\ ret.p = <<>>
    /\ used # {}
    /\ <<>> \notin used

\* C3: after every accessor that returns a Value or a narrowed view of one,
\* Arr::get_element, Obj::get_member, the typed getters built on them and
\* the conversions as_bool, as_int, as_f64, as_str, as_arr and as_obj, the
\* last called on the root included, that Value is flagged.
C3_EveryAccessorFlags ==
    ret.op \in GetOps \cup AsOps /\ ret.err = "" /\ ret.at # NullRef
        => ret.at \in used


(***************************************************************************)
(* SpecGet: the caller parses a flat document and reads it with the range  *)
(* checked integer reads and the typed getters.  ret is as in SpecAcc,     *)
(* with arg: the arguments of the call.                                    *)
(***************************************************************************)
\* element indices asked for run from -1 to MaxGetIdx
MaxGetIdx == 3

name_n == B(<<"n">>)
name_b == B(<<"b">>)
name_s == B(<<"s">>)
name_t == B(<<"t">>)
name_r == B(<<"r">>)
name_x == B(<<"x">>)

\* {"n":70000,
\* "b":3000000000,
\* "s":"fast","t":true,"r":1.5}
get_doc_obj ==
    B(<<"{", "\"", "n", "\"", ":", "7", "0", "0", "0", "0", ",", "\n",
        "\"", "b", "\"", ":", "3", "0", "0", "0", "0", "0", "0", "0", "0", "0", ",", "\n",
        "\"", "s", "\"", ":", "\"", "f", "a", "s", "t", "\"", ",",
        "\"", "t", "\"", ":", "t", "r", "u", "e", ",",
        "\"", "r", "\"", ":", "1", ".", "5", "}">>)

\* [70000,
\* -5,3000000000]
get_doc_arr ==
    B(<<"[", "7", "0", "0", "0", "0", ",", "\n", "-", "5", ",",
        "3", "0", "0", "0", "0", "0", "0", "0", "0", "0", "]">>)

GetDocs == {get_doc_obj, get_doc_arr}

GetNames == {name_n, name_b, name_s, name_t, name_r, name_x}

\* the lo, hi arguments: int32_t, int64_t (in limbs) and double
I32Ranges == {<<0, -1>>, <<1, 65535>>, <<-10, 100000>>}
I64Ranges ==
    { <<I64OfSmall(0), I64OfSmall(-1)>>,
      <<I64OfSmall(1), I64OfSmall(65535)>>,
      <<I64OfSmall(-10), I64Lit(<<4, 0, 0, 0, 0, 0, 0, 0, 0, 0>>)>> }
F64Ranges ==
    { <<F64Of(FALSE, <<>>, 0), F64Of(TRUE, <<1>>, 0)>>,
      <<F64Of(FALSE, <<>>, 0), F64Of(FALSE, <<1>>, 0)>>,
      <<F64Of(FALSE, <<1>>, 0), F64Of(FALSE, <<1>>, 5)>> }

\* the defaults: none, or one value of the getter's type
BoolDefs == {NoDef, <<FALSE>>}
I32Defs  == {NoDef, <<7>>}
I64Defs  == {NoDef, <<I64OfSmall(7)>>}
F64Defs  == {NoDef, <<F64Of(FALSE, <<2, 5>>, -1)>>}
StrDefs  == {NoDef, <<B(<<"s", "a", "f", "e">>)>>}
EnumDefs == {NoDef, <<"Default">>}

\* the str_set arguments of get_str_enum, with val_set for both
EnumSets ==
    { <<B(<<"s", "a", "f", "e">>), B(<<"f", "a", "s", "t">>)>>,
      <<B(<<"s", "a", "f", "e">>), B(<<"f", "r", "e", "e">>)>> }
EnumVals == <<"First", "Second">>

\* the state after an accessor called with the arguments arg returned or
\* threw r
ReturnedFrom(op, p, at, arg, r, got) ==
    /\ ret' = [op |-> op, p |-> p, at |-> at, arg |-> arg, err |-> r.err.what,
               e |-> r.err, val |-> r.val]
    /\ used' = r.used
    /\ refs' = refs \cup got
    /\ UNCHANGED <<schar, input, str, m_root, m_buf, base, heap, brk>>

\* the caller holds the root, which is an Object (an Array)
HoldsObj == Holds(<<>>) /\ m_root.m_type = vtObj
HoldsArr == Holds(<<>>) /\ m_root.m_type = vtArr

GetInit ==
    /\ schar \in BOOLEAN
    /\ input = <<>>
    /\ NewJson

GetParse(d) ==
    /\ ret.op = "Json"
    /\ input' = <<d>>
    /\ JsonParseInPlace(Append(d, 0))

\* get_member(name)->as_int(): the caller keeps the Int
GetMemberInt(name) ==
    /\ HoldsObj
    /\ LET r == Obj_get_member(<<>>, name, TRUE)
       IN  ReturnedFrom("Obj::get_member", <<>>, r.val, [name |-> name], r,
                        IF r.err.what = "" /\ Node(r.val).m_type = vtInt
                        THEN {r.val} ELSE {})

\* Int::get(lo, hi)
GetIntGet(p, rg) ==
    /\ Holds(p) /\ Node(p).m_type = vtInt
    /\ LET r == IntGet(Node(p), Buf, rg[1], rg[2])
       IN  ReturnedFrom("Int::get", p, p, [lo |-> rg[1], hi |-> rg[2]],
                        Res(r.err, r.val, used), {})

\* Int::get_i32()
GetIntGetI32(p) ==
    /\ Holds(p) /\ Node(p).m_type = vtInt
    /\ LET r == IntGetI32(Node(p), Buf)
       IN  ReturnedFrom("Int::get_i32", p, p, [lo |-> 0, hi |-> -1],
                        Res(r.err, r.val, used), {})

\* Int::get_i32(lo, hi)
GetIntGetI32R(p, rg) ==
    /\ Holds(p) /\ Node(p).m_type = vtInt
    /\ LET r == IntGetI32R(Node(p), Buf, rg[1], rg[2])
       IN  ReturnedFrom("Int::get_i32", p, p, [lo |-> rg[1], hi |-> rg[2]],
                        Res(r.err, r.val, used), {})

GetArrGetI32(idx, rg) ==
    /\ HoldsArr
    /\ ReturnedFrom("Arr::get_i32", <<>>, ElementAt(<<>>, idx),
                    [idx |-> idx, lo |-> rg[1], hi |-> rg[2]],
                    Arr_get_i32(<<>>, idx, rg[1], rg[2]), {})

GetObjGetBool(name, def) ==
    /\ HoldsObj
    /\ ReturnedFrom("Obj::get_bool", <<>>, MemberAt(<<>>, name),
                    [name |-> name, def |-> def],
                    Obj_get_bool(<<>>, name, def), {})

GetObjGetI32(name, rg, def) ==
    /\ HoldsObj
    /\ ReturnedFrom("Obj::get_i32", <<>>, MemberAt(<<>>, name),
                    [name |-> name, lo |-> rg[1], hi |-> rg[2], def |-> def],
                    Obj_get_i32(<<>>, name, rg[1], rg[2], def), {})

GetObjGetI64(name, rg, def) ==
    /\ HoldsObj
    /\ ReturnedFrom("Obj::get_i64", <<>>, MemberAt(<<>>, name),
                    [name |-> name, lo |-> rg[1], hi |-> rg[2], def |-> def],
                    Obj_get_i64(<<>>, name, rg[1], rg[2], def), {})

GetObjGetF64(name, rg, def) ==
    /\ HoldsObj
    /\ ReturnedFrom("Obj::get_f64", <<>>, MemberAt(<<>>, name),
                    [name |-> name, lo |-> rg[1], hi |-> rg[2], def |-> def],
                    Obj_get_f64(<<>>, name, rg[1], rg[2], def), {})

GetObjGetStr(name, def) ==
    /\ HoldsObj
    /\ ReturnedFrom("Obj::get_str", <<>>, MemberAt(<<>>, name),
                    [name |-> name, def |-> def],
                    Obj_get_str(<<>>, name, def), {})

GetObjGetStrEnum(name, set, def) ==
    /\ HoldsObj
    /\ ReturnedFrom("Obj::get_str_enum", <<>>, MemberAt(<<>>, name),
                    [name |-> name, set |-> set, def |-> def],
                    Obj_get_str_enum(<<>>, name, set, EnumVals, def), {})

GetNext ==
    \/ \E d \in GetDocs : GetParse(d)
    \/ \E name \in GetNames : GetMemberInt(name)
    \/ \E p \in refs, rg \in I64Ranges : GetIntGet(p, rg)
    \/ \E p \in refs : GetIntGetI32(p)
    \/ \E p \in refs, rg \in I32Ranges : GetIntGetI32R(p, rg)
    \/ \E idx \in -1..MaxGetIdx, rg \in I32Ranges : GetArrGetI32(idx, rg)
    \/ \E name \in GetNames, def \in BoolDefs : GetObjGetBool(name, def)
    \/ \E name \in GetNames, rg \in I32Ranges, def \in I32Defs :
          GetObjGetI32(name, rg, def)
    \/ \E name \in GetNames, rg \in I64Ranges, def \in I64Defs :
          GetObjGetI64(name, rg, def)
    \/ \E name \in GetNames, rg \in F64Ranges, def \in F64Defs :
          GetObjGetF64(name, rg, def)
    \/ \E name \in GetNames, def \in StrDefs : GetObjGetStr(name, def)
    \/ \E name \in GetNames, set \in EnumSets, def \in EnumDefs :
          GetObjGetStrEnum(name, set, def)

SpecGet == GetInit /\ [][GetNext]_vars


\* the integer reads of C9, and those of them that return an int32_t
IntReadOps == {"Int::get", "Int::get_i32", "Arr::get_i32", "Obj::get_i32"}
I32ReadOps == {"Int::get_i32", "Arr::get_i32", "Obj::get_i32"}

\* the last call was an integer read of a value that is an Int
ReadAnInt ==
    /\ ret.op \in IntReadOps
    /\ ret.at # NullRef
    /\ Node(ret.at).m_type = vtInt

\* the bounds the read applied, as 64-bit integers: its own, or those of
\* int32_t for a get_i32 called without bounds or with lo > hi
AppliedLo ==
    IF ret.op = "Int::get" THEN ret.arg.lo
    ELSE IF ret.arg.lo > ret.arg.hi THEN I64OfI32(INT32_MIN)
    ELSE I64OfI32(ret.arg.lo)
AppliedHi ==
    IF ret.op = "Int::get" THEN ret.arg.hi
    ELSE IF ret.arg.lo > ret.arg.hi THEN I64OfI32(INT32_MAX)
    ELSE I64OfI32(ret.arg.hi)

\* the stored integer passes the read's range check
IntInRange ==
    \/ ret.op = "Int::get" /\ I64Lt(ret.arg.hi, ret.arg.lo)
    \/ /\ I64Le(AppliedLo, Node(ret.at).m_data)
       /\ I64Le(Node(ret.at).m_data, AppliedHi)

\* C9: Int::get(lo, hi) returns the stored value when lo > hi or the value
\* lies in [lo, hi]; the get_i32 reads, direct or through Arr::get_i32 and
\* Obj::get_i32, apply [INT32_MIN, INT32_MAX] when they have no bounds or
\* lo > hi, so what they return equals the stored 64-bit integer; a value
\* outside the bounds applied throws ErrBadIntRange with those bounds and
\* the value's line.
C9_RangeCheckedReads ==
    ReadAnInt =>
        IF IntInRange
        THEN /\ ret.err = ""
             /\ IF ret.op \in I32ReadOps
                THEN /\ ret.val \in INT32_MIN..INT32_MAX
                     /\ I64OfI32(ret.val) = Node(ret.at).m_data
                ELSE ret.val = Node(ret.at).m_data
        ELSE /\ ret.err = "ErrBadIntRange"
             /\ ret.e.lo = AppliedLo
             /\ ret.e.hi = AppliedHi
             /\ ret.e.line = Node(ret.at).m_line_no

\* get_i32("n", 1, 65535) on the member 70000 of line 1 threw
\* ErrBadIntRange with lo = 1, hi = 65535 and line = 1
C9_PortOutOfRange ==
    /\ ret.op = "Obj::get_i32"
    /\ ret.arg.name = name_n
    /\ ret.arg.lo = 1 /\ ret.arg.hi = 65535
    /\ ret.err = "ErrBadIntRange"
    /\ ret.e.lo = I64OfSmall(1) /\ ret.e.hi = I64OfSmall(65535)
    /\ ret.e.line = 1

\* a get_i32 without bounds threw for 3000000000, which int32_t cannot hold
BigRefused ==
    /\ ret.op \in I32ReadOps
    /\ ret.at # NullRef
    /\ Node(ret.at).m_data = I64Lit(<<3, 0, 0, 0, 0, 0, 0, 0, 0, 0>>)
    /\ ret.arg.lo > ret.arg.hi
    /\ ret.err = "ErrBadIntRange"
    /\ ret.e.line = 2

ObjGetOps ==
    {"Obj::get_bool", "Obj::get_i32", "Obj::get_i64", "Obj::get_f64",
     "Obj::get_str", "Obj::get_str_enum"}

\* the types a typed getter accepts
AcceptedTypes(op) ==
    CASE op = "Obj::get_bool" -> {vtBool}
      [] op = "Obj::get_i32" -> {vtInt}
      [] op = "Obj::get_i64" -> {vtInt}
      [] op = "Obj::get_f64" -> {vtInt, vtF64}
      [] op = "Obj::get_str" -> {vtStr}
      [] op = "Obj::get_str_enum" -> {vtStr}

\* the class of the exception the rules of a typed getter ask for when the
\* member read is the value v, "" when they ask for none
RuleError(op, arg, v) ==
    IF v.m_type \notin AcceptedTypes(op) THEN "ErrBadType"
    ELSE CASE op = "Obj::get_i32" ->
                IF arg.lo > arg.hi
                THEN IF I64Le(I64OfI32(INT32_MIN), v.m_data)
                          /\ I64Le(v.m_data, I64OfI32(INT32_MAX))
                     THEN "" ELSE "ErrBadIntRange"
                ELSE IF I64Le(I64OfI32(arg.lo), v.m_data)
                          /\ I64Le(v.m_data, I64OfI32(arg.hi))
                     THEN "" ELSE "ErrBadIntRange"
           [] op = "Obj::get_i64" ->
                IF I64Lt(arg.hi, arg.lo) THEN ""
                ELSE IF I64Le(arg.lo, v.m_data) /\ I64Le(v.m_data, arg.hi)
                     THEN "" ELSE "ErrBadIntRange"
           [] op = "Obj::get_f64" ->
                IF F64Lt(arg.hi, arg.lo) THEN ""
                ELSE IF F64Le(arg.lo, F64Get(v)) /\ F64Le(F64Get(v), arg.hi)
                     THEN "" ELSE "ErrBadF64Range"
           [] op = "Obj::get_str_enum" ->
                IF \E i \in 1..Len(arg.set) : arg.set[i] = StrGet(v, Buf)
                THEN "" ELSE "ErrBadEnum"
           [] OTHER -> ""

\* what a typed getter returns for the value v when the rules let it pass
RuleValue(op, arg, v) ==
    CASE op = "Obj::get_bool" -> v.m_data
      [] op = "Obj::get_i32" -> I64ToI32(v.m_data)
      [] op = "Obj::get_i64" -> v.m_data
      [] op = "Obj::get_f64" -> F64Get(v)
      [] op = "Obj::get_str" -> StrGet(v, Buf)
      [] op = "Obj::get_str_enum" ->
           EnumVals[CHOOSE i \in 1..Len(arg.set) : arg.set[i] = StrGet(v, Buf)]

\* the result of the last typed getter follows the rules for defaults
DefaultRule ==
    ret.op \in ObjGetOps =>
        IF ret.at = NullRef
        THEN IF ret.arg.def # NoDef
             THEN ret.err = "" /\ ret.val = ret.arg.def[1]
             ELSE /\ ret.err = "ErrMemberNotFound"
                  /\ ret.e.val_name = ret.arg.name
        ELSE /\ ret.err = RuleError(ret.op, ret.arg, Node(ret.at))
             /\ ret.err = "" => ret.val = RuleValue(ret.op, ret.arg, Node(ret.at))

\* a typed getter that returns its default changes no flag
DefaultKeepsFlags ==
    ret'.op \in ObjGetOps /\ ret'.at = NullRef /\ ret'.arg.def # NoDef
        => used' = used

\* C10: a typed Object getter returns its default, without error and
\* without changing a flag, when the member is absent and a default is
\* given; throws ErrMemberNotFound with the name asked for when it is
\* absent and no default is given; and applies the type, range and enum
\* rules to a member that is present, default or not.
C10_DefaultsOnlyWhenAbsent == []DefaultRule /\ [][DefaultKeepsFlags]_vars

\* get_str_enum with a default threw ErrBadEnum for a member that is
\* present and outside the set
C10_PresentOutsideEnum ==
    /\ ret.op = "Obj::get_str_enum"
    /\ ret.at # NullRef
    /\ ret.arg.def # NoDef
    /\ ret.err = "ErrBadEnum"
    /\ ret.e.line = 3

\* a getter returned its default for a member that is absent
DefaultReturned ==
    /\ ret.op \in ObjGetOps
    /\ ret.at = NullRef
    /\ ret.arg.def # NoDef
    /\ ret.err = ""
    /\ ret.val = ret.arg.def[1]
    /\ used # {}


(***************************************************************************)
(* C11: ignore_members                                                     *)
(***************************************************************************)
\* ignore_members on a value flags exactly the values below it, on top of
\* the flags there were
IgnoreFlagsSubtree ==
    ret'.op = "ignore_members" => used' = used \cup Under(ret'.p)

\* once the tree is parsed no call takes a flag away
FlagsKept == ret.op # "Json" => used \subseteq used'

\* reject_unknow_members on a value whose subtree is all flagged returns
\* normally
RejectPassesWhenFlagged ==
    ret.op = "reject_unknow_members" /\ Under(ret.p) \subseteq used
        => ret.err = ""

\* reject_unknow_members on the value of the latest ignore_members returns
\* normally, whatever was called on whatever value in between
RejectPassesAfterIgnore ==
    ret.op = "reject_unknow_members" /\ ret.p = Ignored => ret.err = ""

\* C11: ignore_members on a value flags every value below it at every depth,
\* through arrays and objects, and changes no flag outside its subtree; no
\* later call takes a flag away, reject_unknow_members on a value whose
\* subtree is flagged succeeds, and it succeeds on the value of the latest
\* ignore_members at any later point, whatever the flags were before and
\* whatever was called in between.
C11_IgnoreFlagsSubtree ==
    /\ [](RejectPassesWhenFlagged /\ RejectPassesAfterIgnore)
    /\ [][IgnoreFlagsSubtree /\ FlagsKept]_vars

\* reject_unknow_members returned normally on an array that ignore_members
\* had been called on, with an Object in it; the caller never held a value
\* below the array, so that no getter has flagged the member of the Object
C11_RejectedAfterIgnore ==
    /\ ret.op = "reject_unknow_members"
    /\ ret.p = Ignored
    /\ Node(ret.p).m_type = vtArr
    /\ \E q \in Under(ret.p) : Len(q) > Len(ret.p) + 1
    /\ Under(ret.p) \cap refs = {}
    /\ ret.err = ""

\* ignore_members was called on an array none of whose elements had been
\* read, and flagged the member of the Object in it
IgnoredThroughArray ==
    /\ ret.op = "ignore_members"
    /\ Node(ret.p).m_type = vtArr
    /\ used = {ret.p} \cup Under(ret.p)
    /\ \E q \in Under(ret.p) : Len(q) > Len(ret.p) + 1

\* reject_unknow_members succeeded on the root with exactly the values
\* below it flagged
RejectAfterIgnore ==
    /\ ret.op = "reject_unknow_members"
    /\ ret.p = <<>>
    /\ used = Under(<<>>)
    /\ ret.err = ""


(***************************************************************************)
(* SpecTok: the caller writes a text out of the characters a number is     *)
(* made of, then parses it as a single-value document.                     *)
(***************************************************************************)
MaxChars == 5

TokChars == {"-", "+", "0", "1", ".", "e", "E"}

TokInit ==
    /\ schar \in BOOLEAN
    /\ input = <<>>
    /\ NewJson

TokAppend(c) ==
    /\ ret.op = "Json"
    /\ Len(input) < MaxChars
    /\ input' = Append(input, B(<<c>>))
    /\ UNCHANGED <<schar, str, m_root, m_buf, base, heap, brk, used, refs, ret>>

TokParse ==
    /\ ret.op = "Json"
    /\ JsonParse(InputText, 0)
    /\ UNCHANGED input

TokNext ==
    \/ \E c \in TokChars : TokAppend(c)
    \/ TokParse

SpecTok == TokInit /\ [][TokNext]_vars

\* the first position at or after p of the text t that holds no digit
RECURSIVE DigitsEnd(_, _)
DigitsEnd(t, p) ==
    IF p <= Len(t) /\ t[p] \in {ord["0"], ord["1"]} THEN DigitsEnd(t, p + 1) ELSE p

\* the text t is, from the exponent at x on: nothing, or 'e' or 'E', an
\* optional sign and at least one digit
IsExponent(t, x) ==
    \/ x = Len(t) + 1
    \/ /\ x <= Len(t)
       /\ t[x] \in {ord["e"], ord["E"]}
       /\ LET d == IF x < Len(t) /\ t[x + 1] \in {ord["+"], ord["-"]}
                   THEN x + 2 ELSE x + 1
          IN  DigitsEnd(t, d) > d /\ DigitsEnd(t, d) = Len(t) + 1

\* the text t is, from f on: an optional fraction, '.' and at least one
\* digit when strict, then an optional exponent
IsFraction(t, f, strict) ==
    IF f <= Len(t) /\ t[f] = ord["."]
    THEN /\ strict => DigitsEnd(t, f + 1) > f + 1
         /\ IsExponent(t, DigitsEnd(t, f + 1))
    ELSE IsExponent(t, f)

\* the text t is a number: an optional '-', then '0' or a non-zero digit
\* followed by digits, then the optional fraction and exponent
IsNumber(t, strict) ==
    LET i == IF t # <<>> /\ t[1] = ord["-"] THEN 2 ELSE 1
    IN  /\ DigitsEnd(t, i) > i
        /\ t[i] = ord["0"] => DigitsEnd(t, i) = i + 1
        /\ IsFraction(t, DigitsEnd(t, i), strict)

\* the text was accepted as a number
TokAccepted == ParsedOk /\ m_root.m_type \in {vtInt, vtF64}

\* C12: a text is accepted as a number if and only if it is an optional
\* '-', then '0' or a non-zero digit followed by digits, then optionally
\* '.' and at least one digit, then optionally 'e' or 'E', an optional sign
\* and at least one digit; every other text is rejected with a syntax error.
C12_NumberGrammarStrict ==
    Parsed => /\ TokAccepted <=> IsNumber(Flatten(input), TRUE)
              /\ ~TokAccepted => ret.err # ""

\* `1.` has been parsed, and the root is a Float
C12_BareDotAccepted ==
    /\ ParsedOk
    /\ Flatten(input) = B(<<"1", ".">>)
    /\ m_root.m_type = vtF64
    /\ m_root.m_data = F64Of(FALSE, <<1>>, 0)

\* `1.e1` has been parsed to the Float 10
DotExponentAccepted ==
    /\ ParsedOk
    /\ Flatten(input) = B(<<"1", ".", "e", "1">>)
    /\ m_root.m_data = F64Of(FALSE, <<1>>, 1)

\* the grammar the parser keeps: that of C12 but for the digits after '.',
\* which may be missing; a number too large for a double is refused by
\* another rule
NumberGrammarButFraction ==
    Parsed /\ ret.err # "invalid number syntax: float is too huge" =>
        /\ TokAccepted <=> IsNumber(Flatten(input), FALSE)
        /\ ~TokAccepted => ret.err # ""

\* `-`, `01`, `1e` and `1e+` are rejected
OtherTokensRejected ==
    Parsed /\ Flatten(input) \in {B(<<"-">>), B(<<"0", "1">>), B(<<"1", "e">>),
                                  B(<<"1", "e", "+">>)}
        => ret.err # ""


(***************************************************************************)
(* SpecLine: the caller takes a document written on one line and breaks    *)
(* it between its tokens with line endings and comments, then parses it.   *)
(***************************************************************************)
\* the document parsed holds at most this many line endings and comments
MaxBreaks == 3

name_y == B(<<"\"", "y", "\"">>)
tok_colon == B(<<":">>)
tok_open_arr == B(<<"[">>)
tok_open_obj == B(<<"{">>)
tok_one == B(<<"1">>)
tok_two == B(<<"2">>)
tok_str == B(<<"\"", "s", "\"">>)

brk_lf == B(<<"\n">>)
brk_cr == B(<<"\r">>)
brk_comment_lf == B(<<"/", "/", "[", "1", "\n">>)
brk_comment_cr == B(<<" ", "/", "/", "\r">>)

\* {"x":1,"y":2} with a comment behind the ',' and [{"y":["s"]}] with a
\* comment behind the ':', token by token
line_doc_obj ==
    <<tok_open_obj, B(<<"\"", "x", "\"">>), tok_colon, tok_one, tok_comma,
      brk_comment_lf, name_y, tok_colon, tok_two, tok_close_obj>>
line_doc_arr ==
    <<tok_open_arr, tok_open_obj, name_y, tok_colon, brk_comment_cr,
      tok_open_arr, tok_str, tok_close_arr, tok_close_obj, tok_close_arr>>

\* what is put between tokens: LF, CR (a CR put before an LF makes a CRLF
\* pair), and comments ended by LF and by CR
Breaks == {brk_lf, brk_cr, brk_comment_lf, brk_comment_cr}

\* the tokens that produce a value
ValueTokens == {tok_open_obj, tok_open_arr, tok_one, tok_two, tok_str}

BreaksIn(ps) == Cardinality({i \in 1..Len(ps) : ps[i] \in Breaks})

LineInit ==
    /\ schar \in BOOLEAN
    /\ input \in {line_doc_obj, line_doc_arr}
    /\ NewJson

\* the break w is put in before piece i (after the last piece for Len + 1)
LineBreak(i, w) ==
    /\ ret.op = "Json"
    /\ BreaksIn(input) < MaxBreaks
    /\ input' = SubSeq(input, 1, i - 1) \o <<w>> \o SubSeq(input, i, Len(input))
    /\ UNCHANGED <<schar, str, m_root, m_buf, base, heap, brk, used, refs, ret>>

LineParse ==
    /\ ret.op = "Json"
    /\ JsonParseInPlace(InputText)
    /\ UNCHANGED input

LineNext ==
    \/ \E i \in 1..(Len(input) + 1), w \in Breaks : LineBreak(i, w)
    \/ LineParse

SpecLine == LineInit /\ [][LineNext]_vars

\* the line endings of the text t: every CR, and every LF that does not
\* follow a CR
LineEndings(t) ==
    Cardinality({i \in 1..Len(t) :
        \/ t[i] = ord["\r"]
        \/ t[i] = ord["\n"] /\ (i = 1 \/ t[i - 1] # ord["\r"])})

\* the line on which piece i of the input starts
LineOfPiece(i) == 1 + LineEndings(Flatten(SubSeq(input, 1, i - 1)))

\* the lines of the value tokens of the input, in the order written
RECURSIVE TokenLinesFrom(_)
TokenLinesFrom(i) ==
    IF i > Len(input) THEN <<>>
    ELSE (IF input[i] \in ValueTokens THEN <<LineOfPiece(i)>> ELSE <<>>)
           \o TokenLinesFrom(i + 1)

\* the lines of the values of the tree v: v's, then those of its elements
RECURSIVE TreeLines(_), TreeLinesFrom(_, _)
TreeLinesFrom(v, i) ==
    IF i > get_len(v) THEN <<>>
    ELSE TreeLines(v.m_data.values[i]) \o TreeLinesFrom(v, i + 1)

TreeLines(v) ==
    <<v.m_line_no>> \o (IF IsContainer(v) THEN TreeLinesFrom(v, 1) ELSE <<>>)

\* C13: the line counter starts at 1 and advances by one for every CR,
\* every LF and every CRLF pair met in white space or at the end of a
\* comment, and the line of every value is the counter's value at the token
\* that produced it: the opening bracket of a container, the value token of
\* a member.
C13_LinesOfTokens ==
    ParsedOk =>
        /\ TreeLines(m_root) = TokenLinesFrom(1)
        /\ ret.line = 1 + LineEndings(Flatten(input))

\* the example of the specification: the object broken after '{', by the
\* comment after "x":1, and before '}'; the line of y is 3
C13_LineOfY ==
    /\ ParsedOk
    /\ input = <<tok_open_obj, brk_lf, B(<<"\"", "x", "\"">>), tok_colon, tok_one,
                 tok_comma, brk_comment_lf, name_y, tok_colon, tok_two, brk_lf,
                 tok_close_obj>>
    /\ m_root.m_data.values[2].m_line_no = 3

\* a member's value two lines below its name, behind a CRLF pair and a
\* comment ended by CR, has the line of the value
ValueBelowName ==
    /\ ParsedOk
    /\ \E i \in 1..(Len(input) - 4) :
         SubSeq(input, i, i + 4) = <<name_y, tok_colon, brk_cr, brk_lf, brk_comment_cr>>
    /\ \E p \in Paths(m_root) :
         /\ p # <<>>
         /\ get_name(ValueAt(m_root, p), Buf) = B(<<"y">>)
         /\ ValueAt(m_root, p).m_line_no = 3


(***************************************************************************)
(* SpecDecode: parse_str, pass by pass of its loop, on a string literal    *)
(* the caller wrote out of characters and escapes into its own buffer.     *)
(* ret is [op, err, st, str_end, more, str]: the parser's state, the write *)
(* cursor, whether the loop goes on, and the start of the string.          *)
(***************************************************************************)
DecInit ==
    /\ schar \in BOOLEAN
    /\ input = <<>>
    /\ NewJson

DecAppend(e) ==
    /\ ret.op = "Json"
    /\ Len(input) < MaxPieces
    /\ input' = Append(input, e.src)
    /\ UNCHANGED <<schar, str, m_root, m_buf, base, heap, brk, used, refs, ret>>

\* parse_str up to its loop: skip_text("\""), str_end = str = m_next
DecStart ==
    /\ ret.op = "Json"
    /\ str' = StrText
    /\ base' = "str"
    /\ ret' = [op |-> "parse_str", err |-> "",
               st |-> Skip(Parser(StrText, schar, heap, brk), 1),
               str_end |-> 2, more |-> TRUE, str |-> 2]
    /\ UNCHANGED <<schar, input, m_root, m_buf, heap, brk, used, refs>>

\* one pass of the loop
DecIter ==
    /\ ret.op = "parse_str"
    /\ ret.more
    /\ LET r == StrIter(ret.st, ret.str_end)
       IN  /\ str' = r.st.buf
           /\ ret' = [ret EXCEPT !.st = r.st, !.str_end = r.str_end,
                                 !.more = r.more, !.err = r.st.err]
    /\ UNCHANGED <<schar, input, m_root, m_buf, base, heap, brk, used, refs>>

\* after the loop: *str_end = 0; return str
DecEnd ==
    /\ ret.op = "parse_str"
    /\ ~ret.more
    /\ ret.err = ""
    /\ str' = Poke(str, ret.str_end, 0)
    /\ ret' = [ret EXCEPT !.op = "parse_str returned",
                          !.st = [ret.st EXCEPT !.buf = Poke(str, ret.str_end, 0)]]
    /\ UNCHANGED <<schar, input, m_root, m_buf, base, heap, brk, used, refs>>

DecNext ==
    \/ \E e \in StrPieces : DecAppend(e)
    \/ DecStart
    \/ DecIter
    \/ DecEnd

SpecDecode == DecInit /\ [][DecNext]_vars

Decoding == ret.op \in {"parse_str", "parse_str returned"}

\* the write cursor is not beyond the read cursor, so every byte written so
\* far lies below the read cursor
CursorOrder == Decoding => ret.str_end <= ret.st.m_next

\* a pass of the loop writes at the write cursor only, after its reads:
\* every byte it changes lies from the old write cursor on, below the new
\* write cursor and below the new read cursor
WritesBelowRead ==
    ret.op = "parse_str" /\ ret'.op = "parse_str" =>
        \A p \in 1..Len(str) :
            str'[p] # str[p] =>
                p >= ret.str_end /\ p < ret'.str_end /\ p < ret'.st.m_next

\* the bytes not read yet are those the caller wrote
UnreadIntact ==
    ret.op = "parse_str" =>
        \A p \in ret.st.m_next..Len(str) : str[p] = StrText[p]

\* the terminating zero is written at or before the closing quote
TerminatorPlaced ==
    ret.op = "parse_str returned" =>
        /\ ret.str_end <= ret.st.m_next - 1
        /\ StrText[ret.st.m_next - 1] = ord["\""]
        /\ str[ret.str_end] = 0

\* C14: while parse_str decodes a string literal in place, every byte is
\* written below the read cursor, so no byte of the source is overwritten
\* before it has been read, and the terminating zero is written at or before
\* the place of the closing quote.
C14_WriteBelowRead ==
    [](CursorOrder /\ UnreadIntact /\ TerminatorPlaced) /\ [][WritesBelowRead]_vars

\* a literal of a plain character, a surrogate pair and a two-character
\* escape has been decoded: 15 bytes and the closing quote read, 6 bytes
\* and the zero written
C14_Decoded ==
    /\ ret.op = "parse_str returned"
    /\ input = <<B(<<"a">>),
                 B(<<"\\", "u", "d", "8", "3", "d", "\\", "u", "d", "e", "0", "0">>),
                 B(<<"\\", "n">>)>>
    /\ ret.st.m_next = 18
    /\ ret.str_end = 8

\* pass by pass, parse_str ends as the parser's parse_str does
DecodeAgrees ==
    /\ ret.op = "parse_str returned" =>
         /\ parse_str(Parser(StrText, schar, heap, brk)).st = ret.st
         /\ parse_str(Parser(StrText, schar, heap, brk)).str = ret.str
    /\ ret.op = "parse_str" /\ ret.err # "" =>
         /\ parse_str(Parser(StrText, schar, heap, brk)).st = ret.st
         /\ parse_str(Parser(StrText, schar, heap, brk)).str = nullptr


(***************************************************************************)
(* SpecRaw: the caller writes a string literal out of raw bytes, then      *)
(* parses it as a single-value document.                                   *)
(***************************************************************************)
MaxRawBytes == 2

\* control bytes, ASCII bytes other than '"' and '\', and bytes of UTF-8
\* sequences
RawBytes == {1, 9, 10, 13, 31, 32, 33, 97, 126, 127, 128, 169, 195, 255}

RawInit ==
    /\ schar \in BOOLEAN
    /\ input = <<>>
    /\ NewJson

RawAppend(b) ==
    /\ ret.op = "Json"
    /\ Len(input) < MaxRawBytes
    /\ input' = Append(input, <<b>>)
    /\ UNCHANGED <<schar, str, m_root, m_buf, base, heap, brk, used, refs, ret>>

RawParse ==
    /\ ret.op = "Json"
    /\ JsonParse(StrText, 0)
    /\ UNCHANGED input

RawNext ==
    \/ \E b \in RawBytes : RawAppend(b)
    \/ RawParse

SpecRaw == RawInit /\ [][RawNext]_vars

\* the literal holds a byte below 0x20
HasControlByte == \E i \in 1..Len(input) : input[i][1] < 32

\* the literal was accepted and its bytes copied unchanged
RawCopied ==
    /\ ret.err = ""
    /\ m_root.m_type = vtStr
    /\ StrGet(m_root, Buf) = Flatten(input)

\* C15: inside a string literal a raw byte is rejected with a syntax error
\* if and only if its value as an unsigned byte is below 0x20; every other
\* raw byte, the bytes 0x80..0xFF included, is accepted and copied unchanged,
\* whether char is signed or unsigned.
C15_RawBytesAccepted ==
    Parsed => IF HasControlByte THEN ret.err # "" ELSE RawCopied

\* where char is signed, the literal holding the UTF-8 bytes C3 A9 has been
\* refused as holding a control character
C15_HighByteRejected ==
    /\ Parsed
    /\ schar
    /\ input = <<<<195>>, <<169>>>>
    /\ ret.err = "invalid string syntax: control characters not allowed"

\* C15 holds where char is unsigned, and for the bytes below 0x80 everywhere
RawBytesUnsigned ==
    Parsed /\ (~schar \/ \A i \in 1..Len(input) : input[i][1] < 128)
        => IF HasControlByte THEN ret.err # "" ELSE RawCopied

\* where char is signed, a literal holding a byte from 0x80 on is refused
HighBytesSigned ==
    Parsed /\ schar /\ (\E i \in 1..Len(input) : input[i][1] >= 128)
        => ret.err # ""


(***************************************************************************)
(* SpecView: the caller writes a string literal out of characters and      *)
(* escapes, \u0000 among them, and parses it as a single-value document,   *)
(* or as the start of the names of the two members of an object.           *)
(***************************************************************************)
MaxViewPieces == 3

piece_nul == B(<<"\\", "u", "0", "0", "0", "0">>)

\* src is what is written between the quotes, chr the bytes it denotes
ViewPieces ==
    { [src |-> B(<<"a">>),                           chr |-> <<97>>],
      [src |-> B(<<"\\", "n">>),                     chr |-> <<10>>],
      [src |-> B(<<"\\", "u", "0", "0", "4", "1">>), chr |-> <<65>>],
      [src |-> B(<<"\\", "u", "0", "0", "E", "9">>), chr |-> <<195, 169>>],
      [src |-> piece_nul,                            chr |-> <<0>>] }

\* the bytes the pieces written denote
RECURSIVE ViewDenoted(_)
ViewDenoted(ps) ==
    IF ps = <<>> THEN <<>>
    ELSE (CHOOSE e \in ViewPieces : e.src = Head(ps)).chr \o ViewDenoted(Tail(ps))

\* the object {"<pieces>x":1,"<pieces>y":2}, zero-terminated
NamesText ==
    B(<<"{", "\"">>) \o Flatten(input) \o B(<<"x", "\"", ":", "1", ",", "\"">>)
      \o Flatten(input) \o B(<<"y", "\"", ":", "2", "}">>) \o <<0>>

ViewInit ==
    /\ schar \in BOOLEAN
    /\ input = <<>>
    /\ NewJson

ViewAppend(e) ==
    /\ ret.op = "Json"
    /\ Len(input) < MaxViewPieces
    /\ input' = Append(input, e.src)
    /\ UNCHANGED <<schar, str, m_root, m_buf, base, heap, brk, used, refs, ret>>

\* the literal is parsed as a value, with Json::parse
ViewParseValue ==
    /\ ret.op = "Json"
    /\ JsonParse(StrText, 0)
    /\ UNCHANGED input

\* the object is parsed in the caller's buffer, with Json::parse_in_place
ViewParseNames ==
    /\ ret.op = "Json"
    /\ JsonParseInPlace(NamesText)
    /\ UNCHANGED input

ViewNext ==
    \/ \E e \in ViewPieces : ViewAppend(e)
    \/ ViewParseValue
    \/ ViewParseNames

SpecView == ViewInit /\ [][ViewNext]_vars

\* the string handed out for the value is the whole decoded content
ValueViewWhole ==
    /\ ret.err = ""
    /\ m_root.m_type = vtStr
    /\ StrGet(m_root, Buf) = ViewDenoted(input)

\* the two members were accepted under their decoded names
NameViewsWhole ==
    /\ ret.err = ""
    /\ m_root.m_type = vtObj
    /\ get_len(m_root) = 2
    /\ get_name(m_root.m_data.values[1], Buf) = ViewDenoted(input) \o B(<<"x">>)
    /\ get_name(m_root.m_data.values[2], Buf) = ViewDenoted(input) \o B(<<"y">>)

\* C16: for every string literal the parser accepts, as a value or as a
\* member name, the zero-terminated string handed out holds the whole decoded
\* content, whatever code points its \uXXXX escapes name; so two member names
\* whose decoded contents differ are not taken for duplicates.
C16_ViewHoldsContent ==
    /\ ret.op = "parse" /\ ret.err = "" => ValueViewWhole
    /\ ret.op = "parse_in_place" => NameViewsWhole

\* "a\u0000a" has been parsed as a value, and the string handed out is "a"
C16_CutAtNul ==
    /\ ret.op = "parse"
    /\ ret.err = ""
    /\ input = <<B(<<"a">>), piece_nul, B(<<"a">>)>>
    /\ StrGet(m_root, Buf) = B(<<"a">>)
    /\ ViewDenoted(input) = <<97, 0, 97>>

\* the names "\u0000x" and "\u0000y" have been refused as duplicates
NulNamesDuplicate ==
    /\ ret.op = "parse_in_place"
    /\ input = <<piece_nul>>
    /\ ret.err = "invalid object syntax: duplicate member name"

\* C16 for the literals without \u0000
ViewWithoutNul ==
    (\A i \in 1..Len(input) : input[i] # piece_nul) => C16_ViewHoldsContent


(***************************************************************************)
(* SpecTail: the caller's buffer holds a document cut off at any byte, the *)
(* terminating zero, and then whatever bytes the memory behind it holds.   *)
(* It is parsed in place.  input is <<text, byte, ..., byte>>.             *)
(***************************************************************************)
\* at most this many bytes are placed behind the terminating zero
MaxJunk == 2

\* "a\n\ud83d\ude00\u00E9"
tail_doc_str ==
    B(<<"\"", "a", "\\", "n", "\\", "u", "d", "8", "3", "d", "\\", "u", "d", "e",
        "0", "0", "\\", "u", "0", "0", "E", "9", "\"">>)

\* [-1.5e+3,//c CR LF {"a":null,"b":true} CR / ]  (the '/' is an error)
tail_doc_arr ==
    B(<<"[", "-", "1", ".", "5", "e", "+", "3", ",", "/", "/", "c", "\r", "\n",
        "{", "\"", "a", "\"", ":", "n", "u", "l", "l", ",", "\"", "b", "\"", ":",
        "t", "r", "u", "e", "}", "\r", "]">>)

TailDocs == {tail_doc_str, tail_doc_arr}

\* bytes that would carry the parser on if it read them
JunkBytes ==
    {ord["\""], ord["\\"], ord["u"], ord["0"], ord["/"], ord["\n"], ord["]"], ord["e"]}

TailInit ==
    /\ schar \in BOOLEAN
    /\ input = <<>>
    /\ NewJson

\* the text is the first n bytes of the document d
TailCut(d, n) ==
    /\ ret.op = "Json"
    /\ input = <<>>
    /\ input' = <<SubSeq(d, 1, n)>>
    /\ UNCHANGED <<schar, str, m_root, m_buf, base, heap, brk, used, refs, ret>>

\* one more byte lies behind the terminating zero
TailJunk(b) ==
    /\ ret.op = "Json"
    /\ Len(input) >= 1
    /\ Len(input) < 1 + MaxJunk
    /\ input' = Append(input, <<b>>)
    /\ UNCHANGED <<schar, str, m_root, m_buf, base, heap, brk, used, refs, ret>>

\* the bytes behind the terminating zero
Junk == Flatten(Tail(input))

TailParse ==
    /\ ret.op = "Json"
    /\ Len(input) >= 1
    /\ JsonParseInPlace(Append(input[1], 0) \o Junk)
    /\ UNCHANGED input

TailNext ==
    \/ \E d \in TailDocs : \E n \in 0..Len(d) : TailCut(d, n)
    \/ \E b \in JunkBytes : TailJunk(b)
    \/ TailParse

SpecTail == TailInit /\ [][TailNext]_vars

\* the parse of the text in a buffer that ends with the terminating zero,
\* where any read or write behind the zero finds nothing
ParseOfTextAlone == ParserParse(Parser(Append(input[1], 0), schar, {}, 1))

\* C17: for a zero-terminated buffer, well-formed or cut off anywhere, the
\* parser ends with a root value or with a syntax error, and neither reads
\* nor writes a byte behind the terminating zero: the bytes behind it are
\* left as they were and the outcome (root, error, line, and the buffer up
\* to the zero) is the one reached with nothing behind the zero; the read
\* cursor ends at most one place behind the zero, where nothing is read.
C17_StaysWithinText ==
    ret.op = "parse_in_place" =>
        /\ (ret.err = "") # (m_root = NoVal)
        /\ ParseOfTextAlone.st.m_next <= Len(input[1]) + 2
        /\ ret.err = ParseOfTextAlone.st.err
        /\ ret.line = ParseOfTextAlone.st.m_line_count
        /\ ret.err = "" => m_root = ParseOfTextAlone.v
        /\ str = ParseOfTextAlone.st.buf \o Junk

\* the text cut between the two halves of a surrogate pair, with \u behind
\* the terminating zero, has been refused
C17_CutBetweenSurrogates ==
    /\ ret.op = "parse_in_place"
    /\ input = <<SubSeq(tail_doc_str, 1, 10), <<ord["\\"]>>, <<ord["u"]>>>>
    /\ ret.err = "invalid string syntax: bad utf-16 codepoint"

\* the text cut inside a comment, with an LF behind the terminating zero,
\* has been refused on line 1
CutInsideComment ==
    /\ ret.op = "parse_in_place"
    /\ input = <<SubSeq(tail_doc_arr, 1, 12), <<ord["\n"]>>>>
    /\ ret.err # ""
    /\ ret.line = 1

\* the text cut right after a backslash, with a quote behind the zero
CutAfterBackslash ==
    /\ ret.op = "parse_in_place"
    /\ input = <<SubSeq(tail_doc_str, 1, 3), <<ord["\\"]>>, <<ord["\""]>>>>
    /\ ret.err = "invalid string syntax: bad escape character"

\* the whole string document, with a quote behind the zero, has been parsed
WholeTextParsed ==
    /\ ret.op = "parse_in_place"
    /\ input = <<tail_doc_str, <<ord["\""]>>>>
    /\ ret.err = ""
    /\ m_root.m_type = vtStr

=============================================================================
